---- MODULE Spec2Model ----
(***************************************************************************)
(* ChainXchange: the portfolio ledger (buy / sell handlers over the User,  *)
(* Portfolio and Transaction collections) and the CoinGecko request queue. *)
(*                                                                         *)
(* Every awaited store call of a handler is one atomic step; handlers of   *)
(* different requests interleave at their awaits.  Numbers are exact       *)
(* integers; averageBuyPrice is an exact fraction <<n, d>>.  The display   *)
(* fields of a position (crypto, image, symbol) and the timestamps of the  *)
(* transaction records are left out.                                       *)
(*                                                                         *)
(*   Spec        CryptoController.buyCrypto / sellCrypto, run concurrently *)
(*   SpecRoutes  router.post('/buy') / router.post('/sell'), concurrently  *)
(*   SpecQueue   geckoQueue: pushes, the single worker, upstream answers   *)
(*   SpecGateway fetchCoinGeckoDataWithCache: the cache over the queue     *)
(*   SpecSolo    the four handlers, one request at a time                  *)
(*   SpecBuys    the two buy handlers, two requests at a time              *)
(*   SpecValuation  CryptoController.showPortfolio and app.get('/portfolio') *)
(*               over any stored positions and any answer of the fetch     *)
(*   SpecQueueLive  geckoQueue with a fair worker and upstream             *)
(*   SpecController the controller's call sites of the gateway, with time  *)
(*   SpecRace    showMarkets / getChartData racing the 10 s timeout        *)
(*   SpecPortfolioPage  buyCrypto / sellCrypto beside showPortfolio and    *)
(*               its per-user page cache                                   *)
(*                                                                         *)
(* batch, base, nops, nfaults and observed record the history the claims   *)
(* speak of: the handlers started since the store was last at rest, the    *)
(* store at that moment, and whether a read saw a half-applied change.     *)
(***************************************************************************)
EXTENDS Integers, Sequences, FiniteSets, TLC

VARIABLES wallet, portfolio, ledger, req, batch, base, nops, nfaults, observed,
          tasks, task, npushed,
          cache, now, call, ncalls, storedBy,
          page

\* the stores, the requests on them and the portfolio page computed from them
ledgerVars == <<wallet, portfolio, ledger, req, batch, base, nops, nfaults, observed, page>>

queueVars == <<tasks, task, npushed>>

gatewayVars == <<cache, now, call, ncalls, storedBy>>

vars == <<ledgerVars, queueVars, gatewayVars>>

\* what the ledger's handlers leave alone, and what the queue leaves alone
nonLedgerVars == <<queueVars, gatewayVars, page>>

nonQueueVars == <<ledgerVars, gatewayVars>>

----------------------------------------------------------------------------
\* Bounds of the model

\* request slots: how many handlers can be in flight at once
MaxSlots == 2
\* handlers started in one behaviour
MaxOps == 3
\* store calls that raise an error in one behaviour
MaxFaults == 1
\* quantities a request may carry: 1..MaxQty
MaxQty == 3
\* fetch tasks pushed to the request queue in one behaviour
MaxTasks == 3

Slots == 1..MaxSlots
Users == {"u1", "u2"}
Coins == {"btc", "eth"}
Qtys == 1..MaxQty
Prices == {2000, 3000}

----------------------------------------------------------------------------
\* Store helpers

\* wallet of a new user
StartingWallet == 10000

\* a field the document does not carry
Undefined == 0 - 1

RECURSIVE Gcd(_, _)
Gcd(a, b) == IF b = 0 THEN a ELSE Gcd(b, a % b)

Abs(x) == IF x < 0 THEN 0 - x ELSE x

\* the number n/d in lowest terms; d = 0 stands for the non-finite result of x/0
Frac(n, d) ==
    IF d = 0 THEN <<n, 0>>
    ELSE LET g == Gcd(Abs(n), Abs(d))
             s == IF d < 0 THEN 0 - 1 ELSE 1
         IN <<(s * n) \div g, (s * d) \div g>>

NoDoc == [userId |-> "", coinId |-> "", quantity |-> 0, averageBuyPrice |-> <<0, 1>>]

Matches(pf, userId, coinId) ==
    {k \in 1..Len(pf) : pf[k].userId = userId /\ pf[k].coinId = coinId}

Min(S) == CHOOSE x \in S : \A y \in S : x <= y

\* Portfolio.findOne({ userId, coinId }): the first matching document, or none
findOne(pf, userId, coinId) ==
    IF Matches(pf, userId, coinId) = {} THEN NoDoc
    ELSE pf[Min(Matches(pf, userId, coinId))]

Found(doc) == doc # NoDoc

\* a Portfolio collection that takes any number of documents per (userId, coinId)
noKey(pf, userId, coinId) == FALSE

\* the Portfolio collection is keyed by (userId, coinId): a create for a pair
\* that has a document is refused with a duplicate-key error
duplicateKey(pf, userId, coinId) == Matches(pf, userId, coinId) # {}

\* a balance check that lets a buy overdraw the wallet by less than the cost
insufficientFundsLax(w, totalCost) == w + totalCost <= totalCost

\* user.wallet < totalCost
insufficientFunds(w, totalCost) == w < totalCost

\* a holdings check that lets a sell take one unit more than is held
holdsLessLax(doc, quantityNum) == doc.quantity + 1 < quantityNum

\* portfolio.quantity < quantityNum
holdsLess(doc, quantityNum) == doc.quantity < quantityNum

\* User.findByIdAndUpdate(userId, { $inc: { wallet: amount } })
incWallet(w, userId, amount) == [w EXCEPT ![userId] = @ + amount]

\* an update that sets the quantity to the bought quantity
setAvgSetQuantity(pf, userId, coinId, avg, dq) ==
    IF Matches(pf, userId, coinId) = {} THEN pf
    ELSE [pf EXCEPT ![Min(Matches(pf, userId, coinId))] =
              [@ EXCEPT !.averageBuyPrice = avg, !.quantity = dq]]

\* Portfolio.findOneAndUpdate({ userId, coinId }, { $set: { averageBuyPrice }, $inc: { quantity } })
\* on the first matching document; no document matches: nothing changes
setAvgIncQuantity(pf, userId, coinId, avg, dq) ==
    IF Matches(pf, userId, coinId) = {} THEN pf
    ELSE [pf EXCEPT ![Min(Matches(pf, userId, coinId))] =
              [@ EXCEPT !.averageBuyPrice = avg, !.quantity = @ + dq]]

\* an update that also sets averageBuyPrice back to 0
incQuantityResetAvg(pf, userId, coinId, dq) ==
    IF Matches(pf, userId, coinId) = {} THEN pf
    ELSE [pf EXCEPT ![Min(Matches(pf, userId, coinId))] =
              [@ EXCEPT !.quantity = @ + dq, !.averageBuyPrice = <<0, 1>>]]

\* Portfolio.findOneAndUpdate / updateOne({ userId, coinId }, { $inc: { quantity } })
incQuantity(pf, userId, coinId, dq) ==
    IF Matches(pf, userId, coinId) = {} THEN pf
    ELSE [pf EXCEPT ![Min(Matches(pf, userId, coinId))] = [@ EXCEPT !.quantity = @ + dq]]

\* Portfolio.deleteOne({ userId, coinId })
deleteOne(pf, userId, coinId) ==
    IF Matches(pf, userId, coinId) = {} THEN pf
    ELSE LET k == Min(Matches(pf, userId, coinId))
         IN SubSeq(pf, 1, k - 1) \o SubSeq(pf, k + 1, Len(pf))

\* Portfolio.create({ userId, coinId, quantity, averageBuyPrice })
createPosition(pf, userId, coinId, quantityNum, priceNum) ==
    Append(pf, [userId |-> userId, coinId |-> coinId, quantity |-> quantityNum,
                averageBuyPrice |-> Frac(priceNum, 1)])

\* an average that gives the old average and the new price the same weight
unweightedAverage(existing, quantityNum, totalCost) ==
    Frac(existing.averageBuyPrice[1] * quantityNum
            + totalCost * existing.averageBuyPrice[2],
         2 * existing.averageBuyPrice[2] * quantityNum)

\* newAverageBuyPrice of a buy on an existing position
newAverageBuyPrice(existing, quantityNum, totalCost) ==
    LET n == existing.averageBuyPrice[1]
        d == existing.averageBuyPrice[2]
        newTotalQuantity == existing.quantity + quantityNum
    IN Frac(existing.quantity * n + totalCost * d, d * newTotalQuantity)

\* the position step of a buy: update the existing position or create one
buyUpsert(pf, existing, userId, coinId, quantityNum, priceNum) ==
    IF Found(existing)
    THEN setAvgIncQuantity(pf, userId, coinId,
                           newAverageBuyPrice(existing, quantityNum, quantityNum * priceNum),
                           quantityNum)
    ELSE createPosition(pf, userId, coinId, quantityNum, priceNum)

\* a sell that always decrements and never deletes
sellNeverDeletes(pf, existing, userId, coinId, quantityNum) ==
    incQuantity(pf, userId, coinId, 0 - quantityNum)

\* the position step of CryptoController.sellCrypto
sellCryptoReduce(pf, existing, userId, coinId, quantityNum) ==
    IF existing.quantity - quantityNum <= 0
    THEN deleteOne(pf, userId, coinId)
    ELSE incQuantity(pf, userId, coinId, 0 - quantityNum)

\* the position step of router.post('/sell')
routeSellReduce(pf, existing, userId, coinId, quantityNum) ==
    IF existing.quantity = quantityNum
    THEN deleteOne(pf, userId, coinId)
    ELSE incQuantity(pf, userId, coinId, 0 - quantityNum)

\* a record whose total is the unit price
transactionRecordUnitPrice(userId, type, coinId, quantityNum, priceNum) ==
    [userId |-> userId, type |-> type, coinId |-> coinId, quantity |-> quantityNum,
     price |-> priceNum, totalCost |-> priceNum, sellValue |-> Undefined]

\* Transaction.create of the buy handlers and of CryptoController.sellCrypto
transactionRecord(userId, type, coinId, quantityNum, priceNum) ==
    [userId |-> userId, type |-> type, coinId |-> coinId, quantity |-> quantityNum,
     price |-> priceNum, totalCost |-> quantityNum * priceNum, sellValue |-> Undefined]

\* Transaction.create of router.post('/sell'): the total is stored as sellValue
routeSellRecord(userId, coinId, quantityNum, currentPrice) ==
    [userId |-> userId, type |-> "sell", coinId |-> coinId, quantity |-> quantityNum,
     price |-> currentPrice, totalCost |-> Undefined, sellValue |-> quantityNum * currentPrice]

----------------------------------------------------------------------------
\* Request bodies: a form field is missing, a text that does not begin with a
\* numeral (such as "abc"), a numeral, or a numeral followed by other characters
\* (such as "2x"); v is the number parseFloat reads from the field, if it reads one

Missing == [t |-> "missing", v |-> 0]
Text == [t |-> "text", v |-> 0]
Num(n) == [t |-> "num", v |-> n]
Prefixed(n) == [t |-> "prefixed", v |-> n]

\* !field of the handlers' first check
Falsy(field) == field.t = "missing"


\* isNaN(parseFloat(field)): parseFloat reads the longest numeral the text begins
\* with and ignores what follows it
isNaN(field) == field.t \notin {"num", "prefixed"}

\* isNaN(parseFloat(field)) || parseFloat(field) <= 0
NotPositive(field) == isNaN(field) \/ field.v <= 0

\* the validation of buyCrypto, sellCrypto and router.post('/buy')
validateTrade(body) ==
    IF body.coinId = "" \/ Falsy(body.quantity) \/ Falsy(body.price)
    THEN "Missing required fields"
    ELSE IF NotPositive(body.quantity) \/ NotPositive(body.price)
    THEN "Invalid quantity or price values"
    ELSE "valid"

\* the validation of router.post('/sell'): the body carries no price
validateRouteSell(body) ==
    IF body.coinId = "" \/ Falsy(body.quantity)
    THEN "Missing required fields"
    ELSE IF NotPositive(body.quantity)
    THEN "Invalid quantity value"
    ELSE "valid"

----------------------------------------------------------------------------
\* Requests in flight

Idle == [pc |-> "idle", kind |-> "none", userId |-> "", coinId |-> "",
         quantityNum |-> 0, priceNum |-> 0, existing |-> NoDoc, idx |-> 0]

Store == [wallet |-> wallet, portfolio |-> portfolio, ledger |-> ledger]

Quiescent == \A i \in Slots : req[i].pc = "idle"

\* what a started handler is, for the record of the operations run together
Op(kind, userId, body, out) ==
    [kind |-> kind, userId |-> userId, coinId |-> body.coinId, body |-> body,
     quantityNum |-> body.quantity.v, priceNum |-> body.price.v, out |-> out]

\* a handler starts: it joins the operations in flight, or opens a new group
Admit(op) ==
    /\ nops < MaxOps
    /\ nops' = nops + 1
    /\ IF Quiescent
       THEN base' = Store /\ batch' = <<op>>
       ELSE base' = base /\ batch' = Append(batch, op)

NextIdx == IF Quiescent THEN 1 ELSE Len(batch) + 1

\* a store call either works or raises an error
Raises == IF nfaults < MaxFaults THEN {FALSE, TRUE} ELSE {FALSE}

CountFault(raised) == nfaults' = IF raised THEN nfaults + 1 ELSE nfaults

Begin(i, kind, userId, body, pc, existing) ==
    req' = [req EXCEPT ![i] =
              [pc |-> pc, kind |-> kind, userId |-> userId, coinId |-> body.coinId,
               quantityNum |-> body.quantity.v, priceNum |-> body.price.v,
               existing |-> existing, idx |-> NextIdx]]

Goto(i, pc) == req' = [req EXCEPT ![i].pc = pc]

\* the handler answers: res.redirect or the catch block's error response
Respond(i, out) ==
    /\ req' = [req EXCEPT ![i] = Idle]
    /\ batch' = [batch EXCEPT ![req[i].idx].out = out]

\* request j has changed part of wallet / position / ledger and not yet the rest
WalletOnly(j) ==
    \/ req[j].kind \in {"buyCrypto", "routeBuy"} /\ req[j].pc \in {"findOne", "upsert"}
    \/ req[j].kind \in {"sellCrypto", "routeSell"} /\ req[j].pc = "reduce"

NoRecordYet(j) == req[j].kind # "none" /\ req[j].pc = "record"

\* a read of request i on (userId, coinId) sees the half-applied change of another
ReadsPartial(i, userId, coinId) ==
    \E j \in Slots \ {i} :
        /\ req[j].userId = userId /\ req[j].coinId = coinId
        /\ (WalletOnly(j) \/ NoRecordYet(j))

Observe(i, userId, coinId) == observed' = (observed \/ ReadsPartial(i, userId, coinId))

\* the slot a new request takes
FreeSlot(i) == req[i].pc = "idle" /\ \A j \in Slots : j < i => req[j].pc # "idle"

\* portfolioCache.del(`portfolio:${userId}`): the key has no entry any more
portfolioCacheDel(userId) ==
    page' = [page EXCEPT !.portfolioCache[userId].has = FALSE]

----------------------------------------------------------------------------
\* CryptoController.buyCrypto

\* validation, User.findById and the balance check
buyCrypto(i, userId, body) ==
    /\ FreeSlot(i)
    /\ \E raised \in Raises :
        LET out == IF validateTrade(body) # "valid" THEN validateTrade(body)
                   ELSE IF raised THEN "Store error"
                   ELSE IF insufficientFunds(wallet[userId], body.quantity.v * body.price.v)
                   THEN "Insufficient funds"
                   ELSE "pending"
        IN /\ Admit(Op("buyCrypto", userId, body, out))
           /\ CountFault(raised /\ validateTrade(body) = "valid")
           /\ IF out = "pending"
              THEN Begin(i, "buyCrypto", userId, body, "coinInfo", NoDoc)
              ELSE req' = req
           /\ IF validateTrade(body) = "valid" /\ ~raised
              THEN Observe(i, userId, body.coinId)
              ELSE observed' = observed
    /\ UNCHANGED <<wallet, portfolio, ledger>>
    /\ UNCHANGED nonLedgerVars

\* fetchCoinGeckoDataWithCache for the coin's name, symbol and image; a failure
\* is caught and replaced by fallback display data
buyCrypto_coinInfo(i) ==
    /\ req[i].kind = "buyCrypto" /\ req[i].pc = "coinInfo"
    /\ Goto(i, "debit")
    /\ UNCHANGED <<wallet, portfolio, ledger, batch, base, nops, nfaults, observed>>
    /\ UNCHANGED nonLedgerVars

\* User.findByIdAndUpdate(userId, { $inc: { wallet: -totalCost } })
buyCrypto_debit(i) ==
    /\ req[i].kind = "buyCrypto" /\ req[i].pc = "debit"
    /\ \E raised \in Raises :
        /\ CountFault(raised)
        /\ IF raised
           THEN Respond(i, "Store error") /\ wallet' = wallet
           ELSE /\ wallet' = incWallet(wallet, req[i].userId,
                                       0 - req[i].quantityNum * req[i].priceNum)
                /\ Goto(i, "findOne") /\ batch' = batch
    /\ UNCHANGED <<portfolio, ledger, base, nops, observed>>
    /\ UNCHANGED nonLedgerVars

\* Portfolio.findOne({ userId, coinId })
buyCrypto_findOne(i) ==
    /\ req[i].kind = "buyCrypto" /\ req[i].pc = "findOne"
    /\ \E raised \in Raises :
        /\ CountFault(raised)
        /\ IF raised
           THEN Respond(i, "Store error") /\ observed' = observed
           ELSE /\ req' = [req EXCEPT ![i].pc = "upsert",
                                      ![i].existing = findOne(portfolio, req[i].userId, req[i].coinId)]
                /\ batch' = batch
                /\ Observe(i, req[i].userId, req[i].coinId)
    /\ UNCHANGED <<wallet, portfolio, ledger, base, nops>>
    /\ UNCHANGED nonLedgerVars

\* Portfolio.findOneAndUpdate on the existing position, or Portfolio.create
buyCrypto_upsert(i) ==
    /\ req[i].kind = "buyCrypto" /\ req[i].pc = "upsert"
    /\ \E raised \in Raises :
        /\ CountFault(raised)
        /\ IF raised
           THEN Respond(i, "Store error") /\ portfolio' = portfolio
           ELSE IF ~Found(req[i].existing)
                   /\ duplicateKey(portfolio, req[i].userId, req[i].coinId)
           THEN Respond(i, "Duplicate key") /\ portfolio' = portfolio
           ELSE /\ portfolio' = buyUpsert(portfolio, req[i].existing, req[i].userId,
                                          req[i].coinId, req[i].quantityNum, req[i].priceNum)
                /\ Goto(i, "record") /\ batch' = batch
    /\ UNCHANGED <<wallet, ledger, base, nops, observed>>
    /\ UNCHANGED nonLedgerVars

\* Transaction.create, portfolioCache.del and the redirect
buyCrypto_record(i) ==
    /\ req[i].kind = "buyCrypto" /\ req[i].pc = "record"
    /\ \E raised \in Raises :
        /\ CountFault(raised)
        /\ IF raised
           THEN Respond(i, "Store error") /\ ledger' = ledger /\ page' = page
           ELSE /\ ledger' = Append(ledger, transactionRecord(req[i].userId, "buy",
                                       req[i].coinId, req[i].quantityNum, req[i].priceNum))
                /\ portfolioCacheDel(req[i].userId)
                /\ Respond(i, "ok")
    /\ UNCHANGED <<wallet, portfolio, base, nops, observed>>
    /\ UNCHANGED <<queueVars, gatewayVars>>

----------------------------------------------------------------------------
\* router.post('/buy')

\* validation, User.findById and the balance check
routeBuy(i, userId, body) ==
    /\ FreeSlot(i)
    /\ \E raised \in Raises :
        LET out == IF validateTrade(body) # "valid" THEN validateTrade(body)
                   ELSE IF raised THEN "Store error"
                   ELSE IF insufficientFunds(wallet[userId], body.quantity.v * body.price.v)
                   THEN "Insufficient funds"
                   ELSE "pending"
        IN /\ Admit(Op("routeBuy", userId, body, out))
           /\ CountFault(raised /\ validateTrade(body) = "valid")
           /\ IF out = "pending"
              THEN Begin(i, "routeBuy", userId, body, "debit", NoDoc)
              ELSE req' = req
           /\ IF validateTrade(body) = "valid" /\ ~raised
              THEN Observe(i, userId, body.coinId)
              ELSE observed' = observed
    /\ UNCHANGED <<wallet, portfolio, ledger>>
    /\ UNCHANGED nonLedgerVars

\* User.findByIdAndUpdate(userId, { $inc: { wallet: -totalCost } })
routeBuy_debit(i) ==
    /\ req[i].kind = "routeBuy" /\ req[i].pc = "debit"
    /\ \E raised \in Raises :
        /\ CountFault(raised)
        /\ IF raised
           THEN Respond(i, "Store error") /\ wallet' = wallet
           ELSE /\ wallet' = incWallet(wallet, req[i].userId,
                                       0 - req[i].quantityNum * req[i].priceNum)
                /\ Goto(i, "findOne") /\ batch' = batch
    /\ UNCHANGED <<portfolio, ledger, base, nops, observed>>
    /\ UNCHANGED nonLedgerVars

\* Portfolio.findOne({ userId, coinId })
routeBuy_findOne(i) ==
    /\ req[i].kind = "routeBuy" /\ req[i].pc = "findOne"
    /\ \E raised \in Raises :
        /\ CountFault(raised)
        /\ IF raised
           THEN Respond(i, "Store error") /\ observed' = observed
           ELSE /\ req' = [req EXCEPT ![i].pc = "upsert",
                                      ![i].existing = findOne(portfolio, req[i].userId, req[i].coinId)]
                /\ batch' = batch
                /\ Observe(i, req[i].userId, req[i].coinId)
    /\ UNCHANGED <<wallet, portfolio, ledger, base, nops>>
    /\ UNCHANGED nonLedgerVars

\* Portfolio.findOneAndUpdate on the existing position, or Portfolio.create
routeBuy_upsert(i) ==
    /\ req[i].kind = "routeBuy" /\ req[i].pc = "upsert"
    /\ \E raised \in Raises :
        /\ CountFault(raised)
        /\ IF raised
           THEN Respond(i, "Store error") /\ portfolio' = portfolio
           ELSE IF ~Found(req[i].existing)
                   /\ duplicateKey(portfolio, req[i].userId, req[i].coinId)
           THEN Respond(i, "Duplicate key") /\ portfolio' = portfolio
           ELSE /\ portfolio' = buyUpsert(portfolio, req[i].existing, req[i].userId,
                                          req[i].coinId, req[i].quantityNum, req[i].priceNum)
                /\ Goto(i, "record") /\ batch' = batch
    /\ UNCHANGED <<wallet, ledger, base, nops, observed>>
    /\ UNCHANGED nonLedgerVars

\* Transaction.create and the redirect
routeBuy_record(i) ==
    /\ req[i].kind = "routeBuy" /\ req[i].pc = "record"
    /\ \E raised \in Raises :
        /\ CountFault(raised)
        /\ IF raised
           THEN Respond(i, "Store error") /\ ledger' = ledger
           ELSE /\ ledger' = Append(ledger, transactionRecord(req[i].userId, "buy",
                                       req[i].coinId, req[i].quantityNum, req[i].priceNum))
                /\ Respond(i, "ok")
    /\ UNCHANGED <<wallet, portfolio, base, nops, observed>>
    /\ UNCHANGED nonLedgerVars

----------------------------------------------------------------------------
\* CryptoController.sellCrypto

\* validation, Portfolio.findOne and the holdings check
sellCrypto(i, userId, body) ==
    /\ FreeSlot(i)
    /\ \E raised \in Raises :
        LET existing == findOne(portfolio, userId, body.coinId)
            out == IF validateTrade(body) # "valid" THEN validateTrade(body)
                   ELSE IF raised THEN "Store error"
                   ELSE IF ~Found(existing) \/ holdsLess(existing, body.quantity.v)
                   THEN "Insufficient cryptocurrency holdings"
                   ELSE "pending"
        IN /\ Admit(Op("sellCrypto", userId, body, out))
           /\ CountFault(raised /\ validateTrade(body) = "valid")
           /\ IF out = "pending"
              THEN Begin(i, "sellCrypto", userId, body, "credit", existing)
              ELSE req' = req
           /\ IF validateTrade(body) = "valid" /\ ~raised
              THEN Observe(i, userId, body.coinId)
              ELSE observed' = observed
    /\ UNCHANGED <<wallet, portfolio, ledger>>
    /\ UNCHANGED nonLedgerVars

\* User.findByIdAndUpdate(userId, { $inc: { wallet: totalEarnings } })
sellCrypto_credit(i) ==
    /\ req[i].kind = "sellCrypto" /\ req[i].pc = "credit"
    /\ \E raised \in Raises :
        /\ CountFault(raised)
        /\ IF raised
           THEN Respond(i, "Store error") /\ wallet' = wallet
           ELSE /\ wallet' = incWallet(wallet, req[i].userId,
                                       req[i].quantityNum * req[i].priceNum)
                /\ Goto(i, "reduce") /\ batch' = batch
    /\ UNCHANGED <<portfolio, ledger, base, nops, observed>>
    /\ UNCHANGED nonLedgerVars

\* Portfolio.deleteOne when nothing remains, else $inc: { quantity: -quantityNum }
sellCrypto_reduce(i) ==
    /\ req[i].kind = "sellCrypto" /\ req[i].pc = "reduce"
    /\ \E raised \in Raises :
        /\ CountFault(raised)
        /\ IF raised
           THEN Respond(i, "Store error") /\ portfolio' = portfolio
           ELSE /\ portfolio' = sellCryptoReduce(portfolio, req[i].existing, req[i].userId,
                                                 req[i].coinId, req[i].quantityNum)
                /\ Goto(i, "record") /\ batch' = batch
    /\ UNCHANGED <<wallet, ledger, base, nops, observed>>
    /\ UNCHANGED nonLedgerVars

\* Transaction.create
sellCrypto_record(i) ==
    /\ req[i].kind = "sellCrypto" /\ req[i].pc = "record"
    /\ \E raised \in Raises :
        /\ CountFault(raised)
        /\ IF raised
           THEN Respond(i, "Store error") /\ ledger' = ledger
           ELSE /\ ledger' = Append(ledger, transactionRecord(req[i].userId, "sell",
                                       req[i].coinId, req[i].quantityNum, req[i].priceNum))
                /\ Goto(i, "wait") /\ batch' = batch
    /\ UNCHANGED <<wallet, portfolio, base, nops, observed>>
    /\ UNCHANGED nonLedgerVars

\* the 500 ms wait, portfolioCache.del and the redirect
sellCrypto_done(i) ==
    /\ req[i].kind = "sellCrypto" /\ req[i].pc = "wait"
    /\ portfolioCacheDel(req[i].userId)
    /\ Respond(i, "ok")
    /\ UNCHANGED <<wallet, portfolio, ledger, base, nops, nfaults, observed>>
    /\ UNCHANGED <<queueVars, gatewayVars>>

----------------------------------------------------------------------------
\* router.post('/sell')

\* validation, Portfolio.findOne and the holdings checks
routeSell(i, userId, body) ==
    /\ FreeSlot(i)
    /\ \E raised \in Raises :
        LET existing == findOne(portfolio, userId, body.coinId)
            out == IF validateRouteSell(body) # "valid" THEN validateRouteSell(body)
                   ELSE IF raised THEN "Store error"
                   ELSE IF ~Found(existing) THEN "Portfolio entry not found"
                   ELSE IF holdsLess(existing, body.quantity.v)
                   THEN "Insufficient crypto balance"
                   ELSE "pending"
        IN /\ Admit(Op("routeSell", userId, body, out))
           /\ CountFault(raised /\ validateRouteSell(body) = "valid")
           /\ IF out = "pending"
              THEN Begin(i, "routeSell", userId, body, "price", existing)
              ELSE req' = req
           /\ IF validateRouteSell(body) = "valid" /\ ~raised
              THEN Observe(i, userId, body.coinId)
              ELSE observed' = observed
    /\ UNCHANGED <<wallet, portfolio, ledger>>
    /\ UNCHANGED nonLedgerVars

\* fetchCoinGeckoDataWithCache('.../simple/price'): currentPrice = priceData[coinId].usd,
\* or the fetch (or the lookup in its payload) throws
routeSell_price(i) ==
    /\ req[i].kind = "routeSell" /\ req[i].pc = "price"
    /\ \/ \E currentPrice \in Prices :
            /\ req' = [req EXCEPT ![i].pc = "credit", ![i].priceNum = currentPrice]
            /\ batch' = [batch EXCEPT ![req[i].idx].priceNum = currentPrice]
       \/ Respond(i, "Gateway error")
    /\ UNCHANGED <<wallet, portfolio, ledger, base, nops, nfaults, observed>>
    /\ UNCHANGED nonLedgerVars

\* User.findByIdAndUpdate(userId, { $inc: { wallet: sellValue } })
routeSell_credit(i) ==
    /\ req[i].kind = "routeSell" /\ req[i].pc = "credit"
    /\ \E raised \in Raises :
        /\ CountFault(raised)
        /\ IF raised
           THEN Respond(i, "Store error") /\ wallet' = wallet
           ELSE /\ wallet' = incWallet(wallet, req[i].userId,
                                       req[i].quantityNum * req[i].priceNum)
                /\ Goto(i, "reduce") /\ batch' = batch
    /\ UNCHANGED <<portfolio, ledger, base, nops, observed>>
    /\ UNCHANGED nonLedgerVars

\* Portfolio.deleteOne when selling all, else Portfolio.updateOne $inc
routeSell_reduce(i) ==
    /\ req[i].kind = "routeSell" /\ req[i].pc = "reduce"
    /\ \E raised \in Raises :
        /\ CountFault(raised)
        /\ IF raised
           THEN Respond(i, "Store error") /\ portfolio' = portfolio
           ELSE /\ portfolio' = routeSellReduce(portfolio, req[i].existing, req[i].userId,
                                                req[i].coinId, req[i].quantityNum)
                /\ Goto(i, "record") /\ batch' = batch
    /\ UNCHANGED <<wallet, ledger, base, nops, observed>>
    /\ UNCHANGED nonLedgerVars

\* Transaction.create and the redirect
routeSell_record(i) ==
    /\ req[i].kind = "routeSell" /\ req[i].pc = "record"
    /\ \E raised \in Raises :
        /\ CountFault(raised)
        /\ IF raised
           THEN Respond(i, "Store error") /\ ledger' = ledger
           ELSE /\ ledger' = Append(ledger, routeSellRecord(req[i].userId, req[i].coinId,
                                                       req[i].quantityNum, req[i].priceNum))
                /\ Respond(i, "ok")
    /\ UNCHANGED <<wallet, portfolio, base, nops, observed>>
    /\ UNCHANGED nonLedgerVars

----------------------------------------------------------------------------
\* geckoQueue: async.queue(worker, 1) and its worker

TaskIds == 1..MaxTasks

\* a queue that runs two workers
twoWorkers == 1 + 1

\* the queue's concurrency: the second argument of async.queue
geckoConcurrency == 1

\* the worker's maxAttempts
maxAttempts == 3

\* the default of retryAfter, in seconds
defaultRetryAfter == 10

Payloads == {"payloadA", "payloadB"}

\* how an upstream call can fail other than by a 429 response: axios rejects on
\* its timeout, on a network error or on another status; the worker itself throws
\* on a falsy payload or an empty array
HardFailures == {"timeout", "network", "status500", "empty"}

\* the retry-after header of a 429 response: absent, or a number of seconds
RetryAfterHeaders == {Missing, Num(5)}

\* the failures the gateway's callers are followed through
GatewayFailures == {"timeout"}

NoError == [kind |-> "none", at |-> 0]

\* params of a call that passes null
NoParams == "null"

\* a task not yet pushed.  url and params are the fields of the pushed object;
\* response is the data of the 200 answer the worker received, if any
NewTask == [state |-> "new", url |-> "", params |-> NoParams, attempt |-> 0, calls |-> 0,
            n429 |-> 0, lastError |-> NoError, response |-> "null", result |-> "null",
            delay |-> 0]

Running == {t \in TaskIds : task[t].state \in {"calling", "sleeping"}}

Settled(t) == task[t].state \in {"resolved", "rejected"}

\* a push that puts the task at the front of the queue
pushFront(t) ==
    /\ npushed < MaxTasks
    /\ t = npushed + 1
    /\ npushed' = npushed + 1
    /\ tasks' = <<t>> \o tasks
    /\ task' = [task EXCEPT ![t].state = "queued"]
    /\ UNCHANGED nonQueueVars

\* geckoQueue.push({ url, params }): the task joins the end of the queue
enqueue(t, url, params) ==
    /\ npushed < MaxTasks
    /\ t = npushed + 1
    /\ npushed' = npushed + 1
    /\ tasks' = Append(tasks, t)
    /\ task' = [task EXCEPT ![t].state = "queued", ![t].url = url, ![t].params = params]

\* a push by a caller the model does not follow
push(t) ==
    /\ enqueue(t, NewTask.url, NewTask.params)
    /\ UNCHANGED nonQueueVars

\* the queue hands its first waiting task to a free worker, which makes its first
\* attempt: attempt++ and the axios call
process(t) ==
    /\ tasks # <<>> /\ t = Head(tasks)
    /\ Cardinality(Running) < geckoConcurrency
    /\ tasks' = Tail(tasks)
    /\ task' = [task EXCEPT ![t].state = "calling", ![t].attempt = 1, ![t].calls = 1]
    /\ UNCHANGED npushed
    /\ UNCHANGED nonQueueVars

\* a worker that stores the payload but does not leave its loop on success
workerKeepsLooping(t, data) ==
    /\ task[t].state = "calling"
    /\ IF task[t].attempt < maxAttempts
       THEN task' = [task EXCEPT ![t].attempt = @ + 1, ![t].calls = @ + 1,
                                 ![t].response = data, ![t].result = data]
       ELSE task' = [task EXCEPT ![t].state = "resolved", ![t].response = data,
                                 ![t].result = data]
    /\ UNCHANGED <<tasks, npushed>>

\* the call answers 200 with a non-empty payload: result = response.data, break,
\* return result
workerReturns(t, data) ==
    /\ task[t].state = "calling"
    /\ task' = [task EXCEPT ![t].state = "resolved", ![t].response = data,
                            ![t].result = data]
    /\ UNCHANGED <<tasks, npushed>>

respondData(t, data) ==
    /\ workerReturns(t, data)
    /\ UNCHANGED nonQueueVars

\* a worker that backs off and retries after any failure
respondFailureRetried(t, kind) ==
    /\ task[t].state = "calling"
    /\ task' = [task EXCEPT ![t].state = "sleeping",
                            ![t].lastError = [kind |-> kind, at |-> task[t].calls],
                            ![t].delay = defaultRetryAfter * 1000]
    /\ UNCHANGED <<tasks, npushed>>
    /\ UNCHANGED nonQueueVars

\* the call fails, but not with a 429: lastError = error and the error is thrown again
workerThrows(t, kind) ==
    /\ task[t].state = "calling"
    /\ task' = [task EXCEPT ![t].state = "rejected",
                            ![t].lastError = [kind |-> kind, at |-> task[t].calls]]
    /\ UNCHANGED <<tasks, npushed>>

respondFailure(t, kind) ==
    /\ workerThrows(t, kind)
    /\ UNCHANGED nonQueueVars

\* the call answers 429: lastError = error, then the sleep of retryAfter * 1000 ms
respond429(t, header) ==
    /\ task[t].state = "calling"
    /\ task' = [task EXCEPT ![t].state = "sleeping",
                            ![t].n429 = @ + 1,
                            ![t].lastError = [kind |-> "429", at |-> task[t].calls],
                            ![t].delay = (IF Falsy(header) THEN defaultRetryAfter
                                          ELSE header.v) * 1000]
    /\ UNCHANGED <<tasks, npushed>>
    /\ UNCHANGED nonQueueVars

\* a loop that runs once more than maxAttempts allows
loopAgainOffByOne(attempt) == attempt <= maxAttempts

\* whether the worker's loop runs again after `attempt` attempts
loopAgain(attempt) == attempt < maxAttempts

\* a worker that does not return from its last sleep
workerHangs(t) ==
    /\ task[t].state = "sleeping"
    /\ IF loopAgain(task[t].attempt)
       THEN task' = [task EXCEPT ![t].state = "calling", ![t].attempt = @ + 1,
                                 ![t].calls = @ + 1, ![t].delay = 0]
       ELSE task' = task
    /\ UNCHANGED <<tasks, npushed>>

\* the sleep ends, continue: the loop makes its next attempt, or it ends and the
\* worker throws lastError
workerWakes(t) ==
    /\ task[t].state = "sleeping"
    /\ IF loopAgain(task[t].attempt)
       THEN task' = [task EXCEPT ![t].state = "calling", ![t].attempt = @ + 1,
                                 ![t].calls = @ + 1, ![t].delay = 0]
       ELSE task' = [task EXCEPT ![t].state = "rejected", ![t].delay = 0]
    /\ UNCHANGED <<tasks, npushed>>

wake(t) ==
    /\ workerWakes(t)
    /\ UNCHANGED nonQueueVars

----------------------------------------------------------------------------
\* The gateway: fetchCoinGeckoDataWithCache over the process-wide cache object

\* calls of fetchCoinGeckoDataWithCache in one behaviour
MaxCalls == 2
\* steps the clock makes in one behaviour
MaxTicks == 1

CallIds == 1..MaxCalls

\* the 429 answers the upstream gives while the gateway's callers are followed:
\* as many as let one task use up its attempts
RateLimitBudget == maxAttempts

RECURSIVE SumN429(_)
SumN429(n) == IF n = 0 THEN 0 ELSE task[n].n429 + SumN429(n - 1)

\* the 429 answers given so far
RateLimits == SumN429(MaxTasks)

\* the ttlSeconds of the /portfolio call site
priceTtlSeconds == 30

\* the ttlSeconds of the listing call sites
listingTtlSeconds == 60

\* the clock advances in steps of the shorter ttl, so that an entry's age can be
\* below, equal to and above a ttl
ClockStep == priceTtlSeconds * 1000

\* the arguments of app.get('/portfolio') for the joined coin ids of a portfolio;
\* a cache key is the sequence of the parts its string is made of
portfolioPricesCall(coinIds) ==
    [endpoint |-> "simple/price", params |-> coinIds, cacheKey |-> <<"portfolio_prices">>,
     ttlSeconds |-> priceTtlSeconds]

\* the arguments of app.get('/')
topCoinsCall ==
    [endpoint |-> "coins/markets", params |-> "per_page=30", cacheKey |-> <<"top_30_coins">>,
     ttlSeconds |-> listingTtlSeconds]

\* coinIds.join(',') of the portfolios the model follows
JoinedCoinIds == {"btc", "btc,eth"}

GatewayCalls ==
    {portfolioPricesCall(ids) : ids \in JoinedCoinIds} \cup {topCoinsCall}

CacheKeys == {a.cacheKey : a \in GatewayCalls}

\* cache[cacheKey] of a key never stored
NoEntry == [data |-> "null", timestamp |-> 0 - 1]

\* a call not yet made.  at, seen, from, overlaps, done and abandoned are history:
\* the clock and the entry the call found, the call that had stored that entry,
\* the calls waiting for their fetch when this one began, the call's rank among
\* the finished calls, and whether its caller has stopped waiting for it
NewCall ==
    [state |-> "new", endpoint |-> "", params |-> NoParams, cacheKey |-> <<>>,
     ttlSeconds |-> 0, at |-> 0, seen |-> NoEntry, from |-> 0, overlaps |-> {},
     task |-> 0, out |-> "null", error |-> NoError, done |-> 0, abandoned |-> FALSE]

\* an entry that counts as fresh up to and including the age ttl
freshInclusive(entry, ttlSeconds, clock) ==
    entry # NoEntry /\ clock - entry.timestamp <= ttlSeconds * 1000

\* cache[cacheKey] && (Date.now() - cache[cacheKey].timestamp < ttlSeconds * 1000)
fresh(entry, ttlSeconds, clock) ==
    entry # NoEntry /\ clock - entry.timestamp < ttlSeconds * 1000

\* the request axios is given: the method and the task's url
axiosRequest(tk) == [method |-> "get", url |-> tk.url, params |-> NoParams]

Waiting == {c \in CallIds : call[c].state = "waiting"}

Finished == {c \in CallIds : call[c].state \in {"returned", "threw"}}

\* the call that awaits task t
CallOf(t) == CHOOSE c \in CallIds : call[c].state = "waiting" /\ call[c].task = t

HasCall(t) == \E c \in CallIds : call[c].state = "waiting" /\ call[c].task = t

\* a store that keeps the entry a key already has
cacheKeepFirst(c, data) ==
    IF cache[call[c].cacheKey] # NoEntry THEN cache
    ELSE [cache EXCEPT ![call[c].cacheKey] = [data |-> data, timestamp |-> now]]

\* a caller that returns the data without storing it
cacheNotStored(c, data) == cache

\* cache[cacheKey] = { data, timestamp: Date.now() }
cacheStore(c, data) ==
    [cache EXCEPT ![call[c].cacheKey] = [data |-> data, timestamp |-> now]]

\* a catch block that drops the key's entry before it throws
cacheOnErrorDropped(c) == [cache EXCEPT ![call[c].cacheKey] = NoEntry]

\* the catch block of fetchCoinGeckoDataWithCache: it logs and throws; the cache
\* is as it was
cacheOnError(c) == cache

\* fetchCoinGeckoDataWithCache(endpoint, params, cacheKey, ttlSeconds) up to its
\* await: a fresh entry is returned; otherwise fetchCoinGeckoData pushes a task
fetchCoinGeckoDataWithCache(c, a) ==
    /\ ncalls < MaxCalls
    /\ c = ncalls + 1
    /\ ncalls' = c
    /\ LET entry == cache[a.cacheKey]
           started == [NewCall EXCEPT !.endpoint = a.endpoint, !.params = a.params,
                                      !.cacheKey = a.cacheKey,
                                      !.ttlSeconds = a.ttlSeconds,
                                      !.at = now, !.seen = entry,
                                      !.from = storedBy[a.cacheKey],
                                      !.overlaps = Waiting]
       IN IF fresh(entry, a.ttlSeconds, now)
          THEN /\ call' = [call EXCEPT ![c] = [started EXCEPT !.state = "returned",
                                                              !.out = entry.data,
                                                              !.done = Cardinality(Finished) + 1]]
               /\ UNCHANGED queueVars
          ELSE /\ enqueue(npushed + 1, a.endpoint, a.params)
               /\ call' = [call EXCEPT ![c] = [started EXCEPT !.state = "waiting",
                                                              !.task = npushed + 1]]
    /\ UNCHANGED <<cache, now, storedBy>>
    /\ UNCHANGED ledgerVars

\* the worker returns the payload and the caller's await resumes: the entry is
\* stored with the current time and the data is returned
fetchCoinGeckoDataWithCache_store(t, data) ==
    /\ HasCall(t)
    /\ workerReturns(t, data)
    /\ cache' = cacheStore(CallOf(t), data)
    /\ storedBy' = [storedBy EXCEPT ![call[CallOf(t)].cacheKey] = CallOf(t)]
    /\ call' = [call EXCEPT ![CallOf(t)].state = "returned", ![CallOf(t)].out = data,
                            ![CallOf(t)].done = Cardinality(Finished) + 1]
    /\ UNCHANGED <<now, ncalls>>
    /\ UNCHANGED ledgerVars

\* the caller's catch block: the error of the task is thrown again
rethrow(c, error) ==
    /\ cache' = cacheOnError(c)
    /\ call' = [call EXCEPT ![c].state = "threw", ![c].error = error,
                            ![c].done = Cardinality(Finished) + 1]
    /\ UNCHANGED <<now, ncalls, storedBy>>

\* the worker throws on a failure other than a 429 and the caller's await throws
fetchCoinGeckoDataWithCache_catch(t, kind) ==
    /\ HasCall(t)
    /\ workerThrows(t, kind)
    /\ rethrow(CallOf(t), task'[t].lastError)
    /\ UNCHANGED ledgerVars

\* the worker's sleep ends: it calls again, or its loop is over and it throws the
\* last 429, which the caller's await throws
fetchCoinGeckoDataWithCache_wake(t) ==
    /\ HasCall(t)
    /\ workerWakes(t)
    /\ IF task'[t].state = "rejected"
       THEN rethrow(CallOf(t), task'[t].lastError)
       ELSE UNCHANGED gatewayVars
    /\ UNCHANGED ledgerVars

\* the upstream answers 429 without a retry-after header, while its budget lasts
upstream429(t) ==
    /\ RateLimits < RateLimitBudget
    /\ respond429(t, Missing)

\* time passes
tick ==
    /\ now < MaxTicks * ClockStep
    /\ now' = now + ClockStep
    /\ UNCHANGED <<cache, call, ncalls, storedBy>>
    /\ UNCHANGED queueVars
    /\ UNCHANGED ledgerVars

\* the gateway calls of CryptoController: what each call site passes as ttlSeconds
\* and, in stated, the duration its comment gives, in milliseconds
Minute == 60 * 1000

marketsCall ==
    [endpoint |-> "coins/markets", params |-> NoParams, cacheKey |-> <<"crypto-markets">>,
     ttlSeconds |-> 5 * 60 * 1000, stated |-> 5 * Minute]

chartCall(coinId) ==
    [endpoint |-> "market_chart", params |-> NoParams, cacheKey |-> <<"chart", coinId, "7">>,
     ttlSeconds |-> 5 * 60 * 1000, stated |-> 5 * Minute]

pricesCall(coinIds) ==
    [endpoint |-> "simple/price", params |-> NoParams,
     cacheKey |-> <<"portfolio-prices", coinIds>>,
     ttlSeconds |-> 2 * 60 * 1000, stated |-> 2 * Minute]

coinsCall(coinIds) ==
    [endpoint |-> "coins/markets", params |-> NoParams,
     cacheKey |-> <<"portfolio-coins", coinIds>>,
     ttlSeconds |-> 10 * 60 * 1000, stated |-> 10 * Minute]

ControllerCalls == {marketsCall, chartCall("btc"), pricesCall("btc"), coinsCall("btc")}

ControllerKeys == {a.cacheKey : a \in ControllerCalls}

\* the duration stated at the call site of a key
Stated(cacheKey) == (CHOOSE a \in ControllerCalls : a.cacheKey = cacheKey).stated

\* the keys of showMarkets and getChartData, which race their call against a
\* timer of 10 s
RacedKeys == {marketsCall.cacheKey, chartCall("btc").cacheKey}

\* a race whose timer cancels the fetch: the task leaves the queue
queueCancelled(c) == SelectSeq(tasks, LAMBDA t : t # call[c].task)

\* the queue after the timer of Promise.race has won: the call goes on, its
\* task stays where it is
queueAfterTimeout(c) == tasks

\* the 10 s timer of showMarkets / getChartData fires before the call returns:
\* the handler answers with fallback data and no longer awaits the call
raceTimeout(c) ==
    /\ call[c].state = "waiting" /\ ~call[c].abandoned
    /\ call[c].cacheKey \in RacedKeys
    /\ call' = [call EXCEPT ![c].abandoned = TRUE]
    /\ tasks' = queueAfterTimeout(c)
    /\ UNCHANGED <<task, npushed>>
    /\ UNCHANGED <<cache, now, ncalls, storedBy>>
    /\ UNCHANGED ledgerVars

\* times between two requests: a little more than each stated duration
Elapses == {3 * Minute, 6 * Minute, 11 * Minute}

\* time passes between two requests
elapse(ms) ==
    /\ now < MaxTicks * 11 * Minute
    /\ now' = now + ms
    /\ UNCHANGED <<cache, call, ncalls, storedBy>>
    /\ UNCHANGED queueVars
    /\ UNCHANGED ledgerVars

----------------------------------------------------------------------------
\* CryptoController.showPortfolio: the valuation of a user's positions.  Amounts
\* are exact fractions <<n, d>> with d > 0.

Times(q, f) == Frac(q * f[1], f[2])

Plus(f, g) == Frac(f[1] * g[2] + g[1] * f[2], f[2] * g[2])

Minus(f, g) == Frac(f[1] * g[2] - g[1] * f[2], f[2] * g[2])

Zero == Frac(0, 1)

\* (f / g) * 100
Percent(f, g) == Frac(100 * f[1] * g[2], f[2] * g[1])

\* the payload of /simple/price as the handler reads it: marketData[coinId]?.usd,
\* 0 standing for a coin the payload does not list
MarketPrices == {0, 50, 150}

MarketData == [Coins -> MarketPrices]

\* a percentage computed without looking at the amount invested
holdingUnguarded(holding, marketData) ==
    LET currentPrice == IF marketData[holding.coinId] # 0
                        THEN Frac(marketData[holding.coinId], 1)
                        ELSE holding.averageBuyPrice
        currentValue == Times(holding.quantity, currentPrice)
        totalInvested == Times(holding.quantity, holding.averageBuyPrice)
        profitLoss == Minus(currentValue, totalInvested)
    IN [coinId |-> holding.coinId, quantity |-> holding.quantity,
        averageBuyPrice |-> holding.averageBuyPrice,
        currentPrice |-> currentPrice, currentValue |-> currentValue,
        totalInvested |-> totalInvested, profitLoss |-> profitLoss,
        profitLossPercentage |-> Percent(profitLoss, totalInvested)]

\* the body of portfolio.map(async (holding) => ...) with the fetched prices
holdingWithCurrentPrice(holding, marketData) ==
    LET currentPrice == IF marketData[holding.coinId] # 0
                        THEN Frac(marketData[holding.coinId], 1)
                        ELSE holding.averageBuyPrice
        currentValue == Times(holding.quantity, currentPrice)
        totalInvested == Times(holding.quantity, holding.averageBuyPrice)
        profitLoss == Minus(currentValue, totalInvested)
    IN [coinId |-> holding.coinId, quantity |-> holding.quantity,
        averageBuyPrice |-> holding.averageBuyPrice,
        currentPrice |-> currentPrice, currentValue |-> currentValue,
        totalInvested |-> totalInvested, profitLoss |-> profitLoss,
        profitLossPercentage |-> IF totalInvested[1] > 0
                                 THEN Percent(profitLoss, totalInvested) ELSE Zero]

\* the holding of the catch block: valued at its own averageBuyPrice
holdingFallback(holding) ==
    [coinId |-> holding.coinId, quantity |-> holding.quantity,
     averageBuyPrice |-> holding.averageBuyPrice,
     currentPrice |-> holding.averageBuyPrice,
     currentValue |-> Times(holding.quantity, holding.averageBuyPrice),
     totalInvested |-> Times(holding.quantity, holding.averageBuyPrice),
     profitLoss |-> Zero, profitLossPercentage |-> Zero]

\* holdings.reduce((sum, holding) => sum + holding[field], 0)
RECURSIVE reduceSum(_, _)
reduceSum(holdings, field) ==
    IF holdings = <<>> THEN Zero
    ELSE Plus(reduceSum(Tail(holdings), field), Head(holdings)[field])

\* what is rendered and cached; totalInvested is the handler's local total
PageData(holdings, portfolioValue, totalInvested, totalProfitLoss, totalProfitLossPercentage) ==
    [holdings |-> holdings, portfolioValue |-> portfolioValue,
     totalInvested |-> totalInvested, totalProfitLoss |-> totalProfitLoss,
     totalProfitLossPercentage |-> totalProfitLossPercentage]

\* the page with no holdings: the totals keep their initial 0
emptyPage == PageData(<<>>, Zero, Zero, Zero, Zero)

\* the try block: the holdings with current prices and the totals over them
livePage(found, marketData) ==
    LET holdings == [k \in 1..Len(found) |-> holdingWithCurrentPrice(found[k], marketData)]
        totalPortfolioValue == reduceSum(holdings, "currentValue")
        totalInvested == reduceSum(holdings, "totalInvested")
        totalProfitLoss == Minus(totalPortfolioValue, totalInvested)
    IN PageData(holdings, totalPortfolioValue, totalInvested, totalProfitLoss,
                IF totalInvested[1] > 0 THEN Percent(totalProfitLoss, totalInvested) ELSE Zero)

\* the catch block: it sets the holdings; the totals keep their initial 0
fallbackPage(found) ==
    PageData([k \in 1..Len(found) |-> holdingFallback(found[k])], Zero, Zero, Zero, Zero)

\* Portfolio.find({ userId })
find(pf, userId) == SelectSeq(pf, LAMBDA d : d.userId = userId)

NoPage ==
    [pc |-> "idle", handler |-> "none", userId |-> "", found |-> <<>>, source |-> "none",
     failed |-> "none", user |-> 0,
     began |-> [quiet |-> FALSE, wallet |-> 0, found |-> <<>>],
     marketData |-> [c \in Coins |-> 0], data |-> emptyPage,
     portfolioCache |-> [u \in Users |-> [has |-> FALSE, data |-> emptyPage, user |-> 0]]]

\* res.render('portfolio', ...) after portfolioCache.set(cacheKey, dataToCache)
Render(source, marketData, data) ==
    page' = [page EXCEPT !.pc = "done", !.source = source, !.marketData = marketData,
                         !.data = data,
                         !.portfolioCache[page.userId] = [has |-> TRUE, data |-> data, user |-> page.user]]

valuationRest ==
    /\ UNCHANGED <<wallet, portfolio, ledger, req, batch, base, observed>>
    /\ UNCHANGED <<queueVars, gatewayVars>>

\* GET /portfolio: the cached page if there is one, else User.findById and
\* Portfolio.find; either read can raise, which renders the error page
\* history: the wallet and the positions of the user when the request arrives,
\* and whether no buy or sell was in progress then
Began(userId) ==
    [quiet |-> Quiescent, wallet |-> wallet[userId], found |-> find(portfolio, userId)]

showPortfolio(userId) ==
    /\ page.pc \in {"idle", "done"}
    /\ nops < MaxOps
    /\ nops' = nops + 1
    /\ IF page.portfolioCache[userId].has
       THEN /\ page' = [page EXCEPT !.pc = "done", !.handler = "showPortfolio",
                                    !.userId = userId, !.source = "cache",
                                    !.found = <<>>, !.failed = "none",
                                    !.marketData = NoPage.marketData,
                                    !.data = page.portfolioCache[userId].data,
                                    !.user = page.portfolioCache[userId].user,
                                    !.began = Began(userId)]
            /\ nfaults' = nfaults
       ELSE \E raised \in Raises :
              /\ CountFault(raised)
              /\ page' = IF raised
                         THEN [page EXCEPT !.pc = "done", !.handler = "showPortfolio",
                                           !.userId = userId,
                                           !.source = "error", !.found = <<>>,
                                           !.failed = "store",
                                           !.marketData = NoPage.marketData,
                                           !.data = emptyPage, !.user = 0,
                                           !.began = Began(userId)]
                         ELSE [page EXCEPT !.pc = "found", !.handler = "showPortfolio",
                                           !.userId = userId,
                                           !.source = "none", !.failed = "none",
                                           !.marketData = NoPage.marketData,
                                           !.data = emptyPage,
                                           !.found = find(portfolio, userId),
                                           !.user = wallet[userId],
                                           !.began = Began(userId)]
    /\ valuationRest

\* portfolio.length = 0: nothing is fetched
showPortfolio_empty ==
    /\ page.pc = "found" /\ page.handler = "showPortfolio" /\ page.found = <<>>
    /\ Render("live", page.marketData, emptyPage)
    /\ UNCHANGED <<nops, nfaults>>
    /\ valuationRest

\* the two fetches answered and the payload is read
showPortfolio_prices(marketData) ==
    /\ page.pc = "found" /\ page.handler = "showPortfolio" /\ page.found # <<>>
    /\ Render("live", marketData, livePage(page.found, marketData))
    /\ UNCHANGED <<nops, nfaults>>
    /\ valuationRest

\* a fetch is rejected: catch (err)
showPortfolio_catch ==
    /\ page.pc = "found" /\ page.handler = "showPortfolio" /\ page.found # <<>>
    /\ page' = [page EXCEPT !.pc = "done", !.source = "fallback", !.failed = "gateway",
                            !.data = fallbackPage(page.found),
                            !.portfolioCache[page.userId] =
                                [has |-> TRUE, data |-> fallbackPage(page.found),
                                 user |-> page.user]]
    /\ UNCHANGED <<nops, nfaults>>
    /\ valuationRest

\* the holding of app.get('/portfolio'): quantity x the listed price, 0 for a coin
\* the payload does not list
holdingValue(holding, currentPrices) ==
    [coinId |-> holding.coinId, quantity |-> holding.quantity,
     averageBuyPrice |-> holding.averageBuyPrice,
     currentPrice |-> Frac(currentPrices[holding.coinId], 1),
     value |-> Times(holding.quantity, Frac(currentPrices[holding.coinId], 1))]

\* the page of app.get('/portfolio'): holdings and portfolioValue
valuePage(found, currentPrices) ==
    LET holdings == [k \in 1..Len(found) |-> holdingValue(found[k], currentPrices)]
    IN [holdings |-> holdings, portfolioValue |-> reduceSum(holdings, "value")]

\* app.get('/portfolio'): Portfolio.find, which can raise; with no position
\* nothing is fetched and the empty page is rendered
portfolioRoute(userId) ==
    /\ page.pc \in {"idle", "done"}
    /\ nops < MaxOps
    /\ nops' = nops + 1
    /\ \E raised \in Raises :
         /\ CountFault(raised)
         /\ page' = IF raised
                    THEN [page EXCEPT !.pc = "done", !.handler = "portfolioRoute",
                                      !.userId = userId, !.user = 0, !.began = Began(userId), !.source = "error",
                                      !.found = <<>>, !.failed = "store",
                                      !.marketData = NoPage.marketData,
                                      !.data = emptyPage]
                    ELSE IF find(portfolio, userId) = <<>>
                    THEN [page EXCEPT !.pc = "done", !.handler = "portfolioRoute",
                                      !.userId = userId, !.user = 0, !.began = Began(userId), !.source = "live",
                                      !.found = <<>>, !.failed = "none",
                                      !.marketData = NoPage.marketData,
                                      !.data = valuePage(<<>>, NoPage.marketData)]
                    ELSE [page EXCEPT !.pc = "found", !.handler = "portfolioRoute",
                                      !.userId = userId, !.user = 0, !.began = Began(userId), !.source = "none",
                                      !.failed = "none",
                                      !.marketData = NoPage.marketData,
                                      !.data = emptyPage,
                                      !.found = find(portfolio, userId)]
    /\ valuationRest

\* the price fetch answered
portfolioRoute_prices(marketData) ==
    /\ page.pc = "found" /\ page.handler = "portfolioRoute"
    /\ page' = [page EXCEPT !.pc = "done", !.source = "live", !.marketData = marketData,
                            !.data = valuePage(page.found, marketData)]
    /\ UNCHANGED <<nops, nfaults>>
    /\ valuationRest

\* the price fetch is rejected: the catch block renders the error page with
\* status 500
portfolioRoute_catch ==
    /\ page.pc = "found" /\ page.handler = "portfolioRoute"
    /\ page' = [page EXCEPT !.pc = "done", !.source = "error", !.failed = "gateway",
                            !.data = emptyPage]
    /\ UNCHANGED <<nops, nfaults>>
    /\ valuationRest

\* the locals of res.render('portfolio', ...) have no key that tells a page of
\* the catch block from one of the try block: a template reads undefined
degraded(data) == FALSE

\* the positions a valuation can find: per coin none or one, of a quantity from 0
\* (two interleaved sells leave such a document) and an average cost
AverageCosts == {Frac(100, 1), Frac(2500, 1), Frac(7000, 3)}

HeldOf(userId, coinId) ==
    {<<>>} \cup {<<[userId |-> userId, coinId |-> coinId, quantity |-> q,
                    averageBuyPrice |-> a]>> : q \in 0..MaxQty, a \in AverageCosts}

StoredPortfolios == {b \o e : b \in HeldOf("u1", "btc"), e \in HeldOf("u1", "eth")}

----------------------------------------------------------------------------
\* The ledger: the four handlers, run by one user, interleaved at their awaits

Init ==
    /\ wallet = [u \in Users |-> StartingWallet]
    /\ portfolio = <<>>
    /\ ledger = <<>>
    /\ req = [i \in Slots |-> Idle]
    /\ batch = <<>>
    /\ base = [wallet |-> [u \in Users |-> StartingWallet], portfolio |-> <<>>, ledger |-> <<>>]
    /\ nops = 0
    /\ nfaults = 0
    /\ observed = FALSE
    /\ tasks = <<>>
    /\ task = [t \in TaskIds |-> NewTask]
    /\ npushed = 0
    /\ cache = [k \in CacheKeys |-> NoEntry]
    /\ now = 0
    /\ call = [c \in CallIds |-> NewCall]
    /\ ncalls = 0
    /\ storedBy = [k \in CacheKeys |-> 0]
    /\ page = NoPage

\* the asset the concurrent requests trade
TradedCoins == {"btc"}

TradeBodies ==
    [coinId : TradedCoins, quantity : {Num(q) : q \in Qtys}, price : {Num(p) : p \in Prices}]

SellBodies == [coinId : TradedCoins, quantity : {Num(q) : q \in Qtys}, price : {Missing}]

\* CryptoController's handlers
Next ==
    \E i \in Slots :
        \/ \E body \in TradeBodies : buyCrypto(i, "u1", body)
        \/ buyCrypto_coinInfo(i)
        \/ buyCrypto_debit(i)
        \/ buyCrypto_findOne(i)
        \/ buyCrypto_upsert(i)
        \/ buyCrypto_record(i)
        \/ \E body \in TradeBodies : sellCrypto(i, "u1", body)
        \/ sellCrypto_credit(i)
        \/ sellCrypto_reduce(i)
        \/ sellCrypto_record(i)
        \/ sellCrypto_done(i)

Spec == Init /\ [][Next]_vars

\* the handlers of routes/crypto.js
NextRoutes ==
    \E i \in Slots :
        \/ \E body \in TradeBodies : routeBuy(i, "u1", body)
        \/ routeBuy_debit(i)
        \/ routeBuy_findOne(i)
        \/ routeBuy_upsert(i)
        \/ routeBuy_record(i)
        \/ \E body \in SellBodies : routeSell(i, "u1", body)
        \/ routeSell_price(i)
        \/ routeSell_credit(i)
        \/ routeSell_reduce(i)
        \/ routeSell_record(i)

SpecRoutes == Init /\ [][NextRoutes]_vars

\* the four handlers, one request at a time: a request starts when the one before
\* it has been answered
\* fields a form can carry that are not a positive numeral: absent, "abc", "0",
\* "-1" and "2x"
OddQuantities == {Missing, Text, Num(0), Num(0 - 1), Prefixed(2)}

OddPrices == {Missing, Text, Num(0), Num(0 - 1000), Prefixed(3000)}

OddBodies ==
    [coinId : {""}, quantity : {Num(1)}, price : {Num(2000)}]
    \cup [coinId : {"btc"}, quantity : OddQuantities, price : {Num(2000)}]
    \cup [coinId : {"btc"}, quantity : {Num(1)}, price : OddPrices]

OddSellBodies ==
    [coinId : {""}, quantity : {Num(1)}, price : {Missing}]
    \cup [coinId : {"btc"}, quantity : OddQuantities, price : {Missing}]

SoloBodies ==
    [coinId : Coins, quantity : {Num(q) : q \in Qtys}, price : {Num(p) : p \in Prices}]
    \cup OddBodies

SoloSellBodies ==
    [coinId : Coins, quantity : {Num(q) : q \in Qtys}, price : {Missing}]
    \cup OddSellBodies

\* requests in one behaviour of the solo specification
SoloOps == MaxOps - 1

\* the user whose requests are followed
SoloUsers == {"u1"}

NextSolo ==
    \/ \E userId \in SoloUsers, body \in SoloBodies :
          nops < SoloOps /\ buyCrypto(1, userId, body)
    \/ buyCrypto_coinInfo(1)
    \/ buyCrypto_debit(1)
    \/ buyCrypto_findOne(1)
    \/ buyCrypto_upsert(1)
    \/ buyCrypto_record(1)
    \/ \E userId \in SoloUsers, body \in SoloBodies :
          nops < SoloOps /\ sellCrypto(1, userId, body)
    \/ sellCrypto_credit(1)
    \/ sellCrypto_reduce(1)
    \/ sellCrypto_record(1)
    \/ sellCrypto_done(1)
    \/ \E userId \in SoloUsers, body \in SoloBodies :
          nops < SoloOps /\ routeBuy(1, userId, body)
    \/ routeBuy_debit(1)
    \/ routeBuy_findOne(1)
    \/ routeBuy_upsert(1)
    \/ routeBuy_record(1)
    \/ \E userId \in SoloUsers, body \in SoloSellBodies :
          nops < SoloOps /\ routeSell(1, userId, body)
    \/ routeSell_price(1)
    \/ routeSell_credit(1)
    \/ routeSell_reduce(1)
    \/ routeSell_record(1)

SpecSolo == Init /\ [][NextSolo]_vars

\* the request queue alone: pushes by any callers, the worker, the upstream's answers
NextQueue ==
    \E t \in TaskIds :
        \/ push(t)
        \/ process(t)
        \/ \E data \in Payloads : respondData(t, data)
        \/ \E kind \in HardFailures : respondFailure(t, kind)
        \/ \E header \in RetryAfterHeaders : respond429(t, header)
        \/ wake(t)

SpecQueue == Init /\ [][NextQueue]_vars

\* an upstream attempt of task t ends: with a payload, with a hard failure or
\* with a 429
upstreamAnswers(t) ==
    \/ \E data \in {"payloadA"} : respondData(t, data)
    \/ \E kind \in GatewayFailures : respondFailure(t, kind)
    \/ \E header \in {Missing} : respond429(t, header)

NextQueueLive ==
    \E t \in TaskIds :
        \/ push(t)
        \/ process(t)
        \/ upstreamAnswers(t)
        \/ wake(t)

\* the queue under the event loop's scheduling: a free worker is handed the first
\* waiting task, every upstream attempt ends (axios has a timeout of 15 s) and
\* every sleep ends
SpecQueueLive ==
    /\ Init /\ [][NextQueueLive]_vars
    /\ \A t \in TaskIds : /\ WF_vars(process(t))
                          /\ WF_vars(upstreamAnswers(t))
                          /\ WF_vars(wake(t))

\* the gateway: calls from the call sites, the queue's worker, the upstream's
\* answers and the clock
NextGateway ==
    \/ \E c \in CallIds, a \in GatewayCalls : fetchCoinGeckoDataWithCache(c, a)
    \/ \E t \in TaskIds : process(t)
    \/ \E t \in TaskIds, data \in Payloads : fetchCoinGeckoDataWithCache_store(t, data)
    \/ \E t \in TaskIds, kind \in GatewayFailures : fetchCoinGeckoDataWithCache_catch(t, kind)
    \/ \E t \in TaskIds : upstream429(t)
    \/ \E t \in TaskIds : fetchCoinGeckoDataWithCache_wake(t)
    \/ tick

SpecGateway == Init /\ [][NextGateway]_vars

----------------------------------------------------------------------------
\* A handler run alone, from its first line to its response, on a store st

debited(st, op) ==
    [st EXCEPT !.wallet = incWallet(st.wallet, op.userId, 0 - op.quantityNum * op.priceNum)]

credited(st, op) ==
    [st EXCEPT !.wallet = incWallet(st.wallet, op.userId, op.quantityNum * op.priceNum)]

\* buyCrypto and router.post('/buy') with a valid body and no store error
runBuy(st, op) ==
    IF insufficientFunds(st.wallet[op.userId], op.quantityNum * op.priceNum) THEN st
    ELSE [wallet |-> debited(st, op).wallet,
          portfolio |-> buyUpsert(st.portfolio, findOne(st.portfolio, op.userId, op.coinId),
                                  op.userId, op.coinId, op.quantityNum, op.priceNum),
          ledger |-> Append(st.ledger, transactionRecord(op.userId, "buy", op.coinId,
                                                         op.quantityNum, op.priceNum))]

\* sellCrypto with a valid body and no store error
runSellCrypto(st, op) ==
    LET existing == findOne(st.portfolio, op.userId, op.coinId)
    IN IF ~Found(existing) \/ holdsLess(existing, op.quantityNum) THEN st
       ELSE [wallet |-> credited(st, op).wallet,
             portfolio |-> sellCryptoReduce(st.portfolio, existing, op.userId, op.coinId,
                                            op.quantityNum),
             ledger |-> Append(st.ledger, transactionRecord(op.userId, "sell", op.coinId,
                                                            op.quantityNum, op.priceNum))]

\* router.post('/sell') with a valid body, no store error and the price the gateway gave
runRouteSell(st, op) ==
    LET existing == findOne(st.portfolio, op.userId, op.coinId)
    IN IF ~Found(existing) \/ holdsLess(existing, op.quantityNum) THEN st
       ELSE [wallet |-> credited(st, op).wallet,
             portfolio |-> routeSellReduce(st.portfolio, existing, op.userId, op.coinId,
                                           op.quantityNum),
             ledger |-> Append(st.ledger, routeSellRecord(op.userId, op.coinId,
                                                          op.quantityNum, op.priceNum))]

run(st, op) ==
    IF op.kind \in {"buyCrypto", "routeBuy"} THEN runBuy(st, op)
    ELSE IF op.kind = "sellCrypto" THEN runSellCrypto(st, op)
    ELSE runRouteSell(st, op)

\* the quantity of (userId, coinId) a store holds: 0 when there is no position
held(st, userId, coinId) == findOne(st.portfolio, userId, coinId).quantity

----------------------------------------------------------------------------
\* Claims about the ledger

IsBuy(op) == op.kind \in {"buyCrypto", "routeBuy"}

IsSell(op) == op.kind \in {"sellCrypto", "routeSell"}

Rejections ==
    {"Insufficient funds", "Insufficient cryptocurrency holdings",
     "Portfolio entry not found", "Insufficient crypto balance"}

\* two handlers on one (userId, coinId) ran concurrently and both have answered;
\* no store call has raised an error and the gateway has not failed them
TwoConcurrentDone ==
    /\ Quiescent
    /\ Len(batch) = 2
    /\ batch[1].userId = batch[2].userId
    /\ batch[1].coinId = batch[2].coinId
    /\ \A k \in 1..2 : batch[k].out \in {"ok"} \cup Rejections
    /\ nfaults = 0

\* C1: the wallet is never negative after a buy has made its debit, however the
\* buys of one user interleave
C1_WalletNeverNegative == nfaults = 0 => \A u \in Users : wallet[u] >= 0

\* C2: of two concurrent sells on one (userId, coinId), each within the held
\* quantity but together exceeding it, exactly one succeeds, the other fails with
\* the insufficient-holdings error, and the wallet is credited for one sell only
C2_ConcurrentSellsOneSucceeds ==
    ( /\ TwoConcurrentDone
      /\ IsSell(batch[1]) /\ IsSell(batch[2])
      /\ \A k \in 1..2 : batch[k].quantityNum <= held(base, batch[1].userId, batch[1].coinId)
      /\ batch[1].quantityNum + batch[2].quantityNum
            > held(base, batch[1].userId, batch[1].coinId) )
    => \E k \in 1..2 :
          /\ batch[k].out = "ok"
          /\ batch[3 - k].out \in Rejections
          /\ wallet[batch[1].userId]
                = base.wallet[batch[1].userId] + batch[k].quantityNum * batch[k].priceNum

\* C3: every stored position has quantity >= 0, however buys and sells interleave
C3_QuantityNeverNegative ==
    nfaults = 0 => \A k \in 1..Len(portfolio) : portfolio[k].quantity >= 0

\* how many times each entry occurs in a ledger
Entries(l) == [e \in {l[k] : k \in 1..Len(l)} |-> Cardinality({k \in 1..Len(l) : l[k] = e})]

\* the same wallets, the same positions and the same ledger entries, in any order
SameOutcome(a, b) ==
    a.wallet = b.wallet /\ a.portfolio = b.portfolio /\ Entries(a.ledger) = Entries(b.ledger)

\* C4: two concurrent buy/sell handlers on one (userId, coinId) leave wallet,
\* positions and ledger entries as running the two one after the other, in one of
\* the two orders, would; stated for a pair whose position exists when the two start
C4_Linearizable ==
    (TwoConcurrentDone /\ held(base, batch[1].userId, batch[1].coinId) > 0)
    => \/ SameOutcome(Store, run(run(base, batch[1]), batch[2]))
       \/ SameOutcome(Store, run(run(base, batch[2]), batch[1]))

\* C5: a handler that fails on a store error leaves wallet, positions and ledger
\* as they were when it started
C5_NoPartialEffect ==
    (Quiescent /\ Len(batch) = 1 /\ batch[1].out = "Store error") => Store = base

\* C6: no read of a handler sees a wallet already changed by another handler on
\* the same (userId, coinId) whose position or ledger entry is still to come
C6_NoIntermediateStateObserved == nfaults = 0 => ~observed

----------------------------------------------------------------------------
\* Claims about the request queue

\* tasks are pushed in the order of their ids: a was pushed before b
PushedBefore(a, b) == a < b /\ task[b].state # "new"

\* C7: at most one task is with the worker, in its upstream call or in its
\* backoff sleep, so at most one upstream call is in flight
C7_OneUpstreamCallInFlight ==
    /\ Cardinality(Running) <= 1
    /\ Cardinality({t \in TaskIds : task[t].state = "calling"}) <= 1

\* C7's case: a task waits in the queue behind one that sleeps in its backoff
C7_Witness ==
    \E a, b \in TaskIds : task[a].state = "sleeping" /\ task[b].state = "queued"

\* C8: a task pushed before another has settled before the other's first upstream
\* attempt begins
C8_FifoOrder ==
    \A a, b \in TaskIds :
        (PushedBefore(a, b) /\ task[b].calls >= 1) => Settled(a)

\* C8's case: three tasks were pushed together; the first has settled after a
\* retry, the second is in its first call and the third still waits
C8_Witness ==
    \E a, b, c \in TaskIds :
        /\ PushedBefore(a, b) /\ PushedBefore(b, c)
        /\ Settled(a) /\ task[a].calls >= 2
        /\ task[b].state = "calling" /\ task[b].calls = 1
        /\ task[c].state = "queued"

\* C9: no task makes a 4th upstream attempt, and a task all of whose attempts were
\* answered 429 has, once it settles, made exactly 3 attempts and failed with the
\* 429 error of the last one
C9_RetryBound ==
    \A t \in TaskIds :
        /\ task[t].calls <= 3
        /\ (Settled(t) /\ task[t].n429 = task[t].calls)
              => /\ task[t].state = "rejected"
                 /\ task[t].calls = 3
                 /\ task[t].lastError = [kind |-> "429", at |-> 3]

\* C9's case: a task has failed after three 429 answers
C9_Witness ==
    \E t \in TaskIds : task[t].state = "rejected" /\ task[t].n429 = 3

\* C10: once an attempt has failed other than by a 429, the task is rejected with
\* that error and has made no attempt after it
C10_HardFailureNotRetried ==
    \A t \in TaskIds :
        task[t].lastError.kind \in HardFailures
            => /\ task[t].state = "rejected"
               /\ task[t].lastError.at = task[t].calls

\* C10's case: a task has failed on an empty payload after two rate-limited attempts
C10_Witness ==
    \E t \in TaskIds :
        /\ task[t].state = "rejected"
        /\ task[t].lastError = [kind |-> "empty", at |-> 3]
        /\ task[t].n429 = 2

\* C11: a task whose attempt was answered with a non-empty payload is resolved
\* with exactly that payload; the successful attempt came after zero, one or two
\* rate-limited attempts and is the task's last attempt
C11_SuccessResolves ==
    \A t \in TaskIds :
        /\ task[t].response # "null" => task[t].state = "resolved"
        /\ task[t].state = "resolved"
              => /\ task[t].response \in Payloads
                 /\ task[t].result = task[t].response
                 /\ task[t].n429 \in 0..2
                 /\ task[t].calls = task[t].n429 + 1

\* C11's case: a task is resolved with a payload on its third attempt, after two
\* rate-limited attempts
C11_Witness ==
    \E t \in TaskIds :
        /\ task[t].state = "resolved" /\ task[t].result = "payloadB"
        /\ task[t].n429 = 2 /\ task[t].calls = 3

----------------------------------------------------------------------------
\* Claims about the gateway's cache

\* the age an entry had when call c looked it up
AgeSeen(c) == call[c].at - call[c].seen.timestamp

Ttl(c) == call[c].ttlSeconds * 1000

\* C12: a call returns the stored value, pushing no task, leaving every task and
\* the cache as they are, if and only if an entry exists for its cacheKey and
\* now - timestamp < ttl; otherwise (no entry, or now - timestamp >= ttl) it
\* pushes a task and waits for it
C12_HitIffFresh ==
    [][\A c \in CallIds :
          (call[c].state = "new" /\ call'[c].state # "new")
          => LET entry == cache[call'[c].cacheKey]
             IN IF entry # NoEntry /\ now - entry.timestamp < call'[c].ttlSeconds * 1000
                THEN /\ call'[c].state = "returned"
                     /\ call'[c].out = entry.data
                     /\ call'[c].task = 0
                     /\ UNCHANGED <<tasks, task, npushed, cache>>
                ELSE /\ call'[c].state = "waiting"
                     /\ npushed' = npushed + 1
                     /\ tasks' = Append(tasks, call'[c].task)
                     /\ task'[call'[c].task].state = "queued"
                     /\ cache' = cache]_vars

\* C12's case: a call found an entry whose age equals the ttl exactly and waits
\* for the task it pushed
C12_Witness ==
    \E c \in CallIds :
        /\ call[c].state = "waiting"
        /\ call[c].seen # NoEntry
        /\ AgeSeen(c) = Ttl(c)
        /\ task[call[c].task].state = "queued"

\* two calls for one cache key with one ttl, the second made less than the ttl
\* after the first
WithinTtl(c1, c2) ==
    /\ c1 < c2
    /\ call[c2].state # "new"
    /\ call[c1].cacheKey = call[c2].cacheKey
    /\ call[c1].ttlSeconds = call[c2].ttlSeconds
    /\ call[c2].at - call[c1].at < Ttl(c2)

\* call c pushed a task: its producer was invoked
Fetched(c) == call[c].task # 0

\* a call that finds an entry of age >= ttl pushes a task
StaleIsFetched ==
    \A c \in CallIds :
        (call[c].state # "new" /\ call[c].seen # NoEntry /\ AgeSeen(c) >= Ttl(c)) => Fetched(c)

\* C13 as stated: any two calls for one cache key made within the ttl cause at
\* most one queued fetch, and a call made once the ttl has elapsed since the
\* entry was stored causes a new one
C13_AtMostOneFetchWithinTtl ==
    /\ \A c1, c2 \in CallIds : WithinTtl(c1, c2) => ~(Fetched(c1) /\ Fetched(c2))
    /\ StaleIsFetched

\* C13, amended: two calls for one cache key made within the ttl, the first of
\* which had returned before the second was made, cause at most one queued fetch;
\* a call made once the ttl has elapsed since the entry was stored causes a new one
C13_AtMostOneFetchAfterReturn ==
    /\ \A c1, c2 \in CallIds :
          (WithinTtl(c1, c2) /\ call[c1].state = "returned" /\ c1 \notin call[c2].overlaps)
          => ~(Fetched(c1) /\ Fetched(c2))
    /\ StaleIsFetched

\* C13's case: the first call fetched and stored; the second, made later but
\* within the ttl, was served the first one's entry
C13_Witness ==
    \E c1, c2 \in CallIds :
        /\ WithinTtl(c1, c2) /\ call[c2].at > call[c1].at
        /\ Fetched(c1) /\ call[c1].state = "returned"
        /\ call[c2].state = "returned" /\ ~Fetched(c2)
        /\ call[c2].from = c1 /\ call[c2].out = call[c1].out

C15_RequestCarriesParams ==
    \A t \in TaskIds :
        task[t].calls >= 1
        => /\ axiosRequest(task[t]).url = task[t].url
           /\ axiosRequest(task[t]).params = task[t].params

\* C16: a call served from the cache is served an entry that was stored by a
\* call for the same query: the same endpoint and the same params
C16_EntryOfSameQuery ==
    \A c \in CallIds :
        (call[c].state = "returned" /\ ~Fetched(c))
        => /\ call[call[c].from].endpoint = call[c].endpoint
           /\ call[call[c].from].params = call[c].params

\* two calls for one cache key that both found no fresh entry, the second made
\* while the first waited for its fetch
ConcurrentMisses(c1, c2) ==
    /\ c1 < c2
    /\ call[c1].cacheKey = call[c2].cacheKey
    /\ Fetched(c1) /\ Fetched(c2)
    /\ c1 \in call[c2].overlaps

\* the calls that stored an entry for a key
Storers(key) ==
    {c \in CallIds : call[c].cacheKey = key /\ Fetched(c) /\ call[c].state = "returned"}

\* the one of them that finished last
LastStorer(key) == CHOOSE c \in Storers(key) : \A d \in Storers(key) : call[d].done <= call[c].done

\* C17: two concurrent calls for one cache key that both find no fresh entry are
\* not coalesced: each has its own task, each task makes its own upstream calls,
\* and once both have returned the cache holds the data of the call that
\* finished last
C17_NoCoalescing ==
    \A c1, c2 \in CallIds :
        ConcurrentMisses(c1, c2)
        => /\ call[c1].task # call[c2].task
           /\ (call[c1].state = "returned" /\ call[c2].state = "returned")
                 => /\ task[call[c1].task].calls >= 1
                    /\ task[call[c2].task].calls >= 1
                    /\ cache[call[c1].cacheKey].data = call[LastStorer(call[c1].cacheKey)].out

\* C17's case: two concurrent misses on one key were answered different payloads;
\* the cache holds the payload of the second, which finished last
C17_Witness ==
    \E c1, c2 \in CallIds :
        /\ ConcurrentMisses(c1, c2)
        /\ call[c1].state = "returned" /\ call[c2].state = "returned"
        /\ call[c1].out # call[c2].out
        /\ call[c2].done > call[c1].done
        /\ cache[call[c1].cacheKey].data = call[c2].out

----------------------------------------------------------------------------
\* Claims about one request run alone

\* a request has run from start to answer with no other request in flight
SoloDone == Quiescent /\ Len(batch) = 1

TotalCost(op) == op.quantityNum * op.priceNum

InsufficientHoldings ==
    {"Insufficient cryptocurrency holdings", "Portfolio entry not found",
     "Insufficient crypto balance"}

\* the answers of the handlers' input validation
ValidationErrors ==
    {"Missing required fields", "Invalid quantity or price values", "Invalid quantity value"}

\* C18: a buy that passes validation and whose total cost exceeds the wallet it
\* finds is answered "Insufficient funds" (unless the wallet cannot be read) and
\* leaves wallet, positions and ledger as they were; "Insufficient funds" is
\* answered in no other case
C18_InsufficientFundsNoChange ==
    (SoloDone /\ IsBuy(batch[1]))
    => /\ ( /\ TotalCost(batch[1]) > base.wallet[batch[1].userId]
            /\ batch[1].out \notin ValidationErrors \cup {"Store error"} )
            => batch[1].out = "Insufficient funds"
       /\ batch[1].out = "Insufficient funds"
            => /\ TotalCost(batch[1]) > base.wallet[batch[1].userId]
               /\ Store = base

\* C18's case: a user who holds a position and has a ledger entry is refused a buy
C18_Witness ==
    /\ SoloDone /\ IsBuy(batch[1])
    /\ batch[1].out = "Insufficient funds"
    /\ portfolio # <<>> /\ ledger # <<>>
    /\ wallet[batch[1].userId] > 0

\* C19: a sell that passes validation for more than is held of (userId, coinId),
\* no position counting as holding nothing, is answered with an
\* insufficient-holdings error (unless the position cannot be read) and leaves
\* wallet, positions and ledger as they were; such an error is answered in no
\* other case
C19_InsufficientHoldingsNoChange ==
    (SoloDone /\ IsSell(batch[1]))
    => /\ ( /\ batch[1].quantityNum > held(base, batch[1].userId, batch[1].coinId)
            /\ batch[1].out \notin ValidationErrors \cup {"Store error"} )
            => batch[1].out \in InsufficientHoldings
       /\ batch[1].out \in InsufficientHoldings
            => /\ batch[1].quantityNum > held(base, batch[1].userId, batch[1].coinId)
               /\ Store = base

\* C19's case: a sell of more than the position holds is refused
C19_Witness ==
    /\ SoloDone /\ IsSell(batch[1])
    /\ batch[1].out \in InsufficientHoldings
    /\ held(base, batch[1].userId, batch[1].coinId) > 0
    /\ held(base, batch[1].userId, batch[1].coinId) < batch[1].quantityNum

\* the position of the request's (userId, coinId) in a store
PositionOf(st, op) == findOne(st.portfolio, op.userId, op.coinId)

\* the fraction a equals n / d
FracEquals(a, n, d) == a[2] # 0 /\ d # 0 /\ a[1] * d = n * a[2]

\* C20: a successful buy debits the wallet by quantity x price; with no position
\* it creates one with the bought quantity and averageBuyPrice = price; on a
\* position it adds the quantity and sets averageBuyPrice to
\* (oldQuantity x oldAverage + quantity x price) / (oldQuantity + quantity)
C20_BuyAveragesCost ==
    (SoloDone /\ IsBuy(batch[1]) /\ batch[1].out = "ok")
    => LET op == batch[1]
           old == PositionOf(base, op)
           new == PositionOf(Store, op)
       IN /\ wallet[op.userId] = base.wallet[op.userId] - TotalCost(op)
          /\ Cardinality(Matches(portfolio, op.userId, op.coinId)) = 1
          /\ IF Found(old)
             THEN /\ new.quantity = old.quantity + op.quantityNum
                  /\ FracEquals(new.averageBuyPrice,
                                old.quantity * old.averageBuyPrice[1]
                                   + TotalCost(op) * old.averageBuyPrice[2],
                                (old.quantity + op.quantityNum) * old.averageBuyPrice[2])
             ELSE /\ new.quantity = op.quantityNum
                  /\ new.averageBuyPrice = <<op.priceNum, 1>>

\* C20's case: 1 bought at 2000, then 2 at 3000: the position holds 3 at an
\* average of 8000 / 3, and the wallet has paid 8000
C20_Witness ==
    /\ SoloDone /\ IsBuy(batch[1]) /\ batch[1].out = "ok"
    /\ PositionOf(base, batch[1]).quantity = 1
    /\ PositionOf(base, batch[1]).averageBuyPrice = <<2000, 1>>
    /\ batch[1].quantityNum = 2 /\ batch[1].priceNum = 3000
    /\ PositionOf(Store, batch[1]).quantity = 3
    /\ PositionOf(Store, batch[1]).averageBuyPrice = <<8000, 3>>
    /\ wallet[batch[1].userId] = StartingWallet - 8000

\* buys alone, of one asset by one user, through either handler, two at a time
\* and interleaved at their awaits
BuyBodies == [coinId : TradedCoins, quantity : {Num(1)}, price : {Num(p) : p \in Prices}]

NextBuys ==
    \E i \in {1, 2} :
        \/ nops < SoloOps /\ \E body \in BuyBodies : buyCrypto(i, "u1", body)
        \/ buyCrypto_coinInfo(i)
        \/ buyCrypto_debit(i)
        \/ buyCrypto_findOne(i)
        \/ buyCrypto_upsert(i)
        \/ buyCrypto_record(i)
        \/ nops < SoloOps /\ \E body \in BuyBodies : routeBuy(i, "u1", body)
        \/ routeBuy_debit(i)
        \/ routeBuy_findOne(i)
        \/ routeBuy_upsert(i)
        \/ routeBuy_record(i)

SpecBuys == Init /\ [][NextBuys]_vars

\* valuations of u1's positions, whatever they are
InitValuation ==
    /\ wallet = [u \in Users |-> StartingWallet]
    /\ portfolio \in StoredPortfolios
    /\ ledger = <<>>
    /\ req = [i \in Slots |-> Idle]
    /\ batch = <<>>
    /\ base = [wallet |-> [u \in Users |-> StartingWallet], portfolio |-> <<>>, ledger |-> <<>>]
    /\ nops = 0
    /\ nfaults = 0
    /\ observed = FALSE
    /\ tasks = <<>>
    /\ task = [t \in TaskIds |-> NewTask]
    /\ npushed = 0
    /\ cache = [k \in CacheKeys |-> NoEntry]
    /\ now = 0
    /\ call = [c \in CallIds |-> NewCall]
    /\ ncalls = 0
    /\ storedBy = [k \in CacheKeys |-> 0]
    /\ page = NoPage

NextValuation ==
    \/ showPortfolio("u1")
    \/ showPortfolio_empty
    \/ \E marketData \in MarketData : showPortfolio_prices(marketData)
    \/ showPortfolio_catch
    \/ portfolioRoute("u1")
    \/ \E marketData \in MarketData : portfolioRoute_prices(marketData)
    \/ portfolioRoute_catch

SpecValuation == InitValuation /\ [][NextValuation]_vars

\* the gateway as CryptoController calls it
InitController ==
    /\ wallet = [u \in Users |-> StartingWallet]
    /\ portfolio = <<>>
    /\ ledger = <<>>
    /\ req = [i \in Slots |-> Idle]
    /\ batch = <<>>
    /\ base = [wallet |-> [u \in Users |-> StartingWallet], portfolio |-> <<>>, ledger |-> <<>>]
    /\ nops = 0
    /\ nfaults = 0
    /\ observed = FALSE
    /\ tasks = <<>>
    /\ task = [t \in TaskIds |-> NewTask]
    /\ npushed = 0
    /\ cache = [k \in ControllerKeys |-> NoEntry]
    /\ now = 0
    /\ call = [c \in CallIds |-> NewCall]
    /\ ncalls = 0
    /\ storedBy = [k \in ControllerKeys |-> 0]
    /\ page = NoPage

NextController ==
    \/ \E c \in CallIds, a \in ControllerCalls : fetchCoinGeckoDataWithCache(c, a)
    \/ \E t \in TaskIds : process(t)
    \/ \E t \in TaskIds, data \in Payloads : fetchCoinGeckoDataWithCache_store(t, data)
    \/ \E t \in TaskIds, kind \in GatewayFailures : fetchCoinGeckoDataWithCache_catch(t, kind)
    \/ \E ms \in Elapses : elapse(ms)

SpecController == InitController /\ [][NextController]_vars

\* the calls of showMarkets and getChartData, raced against their timers
RacedCalls == {a \in ControllerCalls : a.cacheKey \in RacedKeys}

NextRace ==
    \/ \E c \in CallIds, a \in RacedCalls : fetchCoinGeckoDataWithCache(c, a)
    \/ \E t \in TaskIds : process(t)
    \/ \E t \in TaskIds, data \in Payloads : fetchCoinGeckoDataWithCache_store(t, data)
    \/ \E t \in TaskIds, kind \in GatewayFailures : fetchCoinGeckoDataWithCache_catch(t, kind)
    \/ \E c \in CallIds : raceTimeout(c)

SpecRace == InitController /\ [][NextRace]_vars

\* showPortfolio next to the controller's buys and sells of the same user.  The
\* start is the state after u1's first buy, of 1 btc at 2000.
InitPortfolioPage ==
    /\ wallet = incWallet([u \in Users |-> StartingWallet], "u1", 0 - 2000)
    /\ portfolio = createPosition(<<>>, "u1", "btc", 1, 2000)
    /\ ledger = <<transactionRecord("u1", "buy", "btc", 1, 2000)>>
    /\ req = [i \in Slots |-> Idle]
    /\ batch = <<>>
    /\ base = [wallet |-> [u \in Users |-> StartingWallet], portfolio |-> <<>>, ledger |-> <<>>]
    /\ nops = 0
    /\ nfaults = 0
    /\ observed = FALSE
    /\ tasks = <<>>
    /\ task = [t \in TaskIds |-> NewTask]
    /\ npushed = 0
    /\ cache = [k \in CacheKeys |-> NoEntry]
    /\ now = 0
    /\ call = [c \in CallIds |-> NewCall]
    /\ ncalls = 0
    /\ storedBy = [k \in CacheKeys |-> 0]
    /\ page = NoPage

NextPortfolioPage ==
    \/ \E body \in BuyBodies : buyCrypto(1, "u1", body)
    \/ buyCrypto_coinInfo(1)
    \/ buyCrypto_debit(1)
    \/ buyCrypto_findOne(1)
    \/ buyCrypto_upsert(1)
    \/ buyCrypto_record(1)
    \/ \E body \in BuyBodies : sellCrypto(1, "u1", body)
    \/ sellCrypto_credit(1)
    \/ sellCrypto_reduce(1)
    \/ sellCrypto_record(1)
    \/ sellCrypto_done(1)
    \/ showPortfolio("u1")
    \/ showPortfolio_empty
    \/ \E marketData \in MarketData : showPortfolio_prices(marketData)
    \/ showPortfolio_catch

SpecPortfolioPage == InitPortfolioPage /\ [][NextPortfolioPage]_vars

\* the positions of a store other than the one of (userId, coinId)
OtherPositions(st, op) ==
    SelectSeq(st.portfolio, LAMBDA d : ~(d.userId = op.userId /\ d.coinId = op.coinId))

C23_NoZeroPosition ==
    nfaults = 0 => \A k \in 1..Len(portfolio) : portfolio[k].quantity # 0

\* C24: no (userId, coinId) has more than one stored position, also when two buys
\* of an asset that is not held run at the same time
C24_OnePositionPerPair ==
    \A u \in Users, c \in Coins : Cardinality(Matches(portfolio, u, c)) <= 1

\* C24's case: two buys were in flight together, neither found a position, one
\* created it and the other's create was refused
C24_Witness ==
    /\ Quiescent /\ Len(batch) = 2 /\ nfaults = 0
    /\ batch[1].out = "ok" /\ batch[2].out = "Duplicate key"
    /\ Len(portfolio) = 1

\* the total a ledger entry carries, as the history reader takes it:
\* tx.totalCost || tx.sellValue
storedTotal(tx) == IF tx.totalCost # Undefined THEN tx.totalCost ELSE tx.sellValue

\* the entry a request that answered ok is to have appended
EntryOf(op, tx) ==
    /\ tx.userId = op.userId /\ tx.coinId = op.coinId
    /\ tx.type = (IF IsBuy(op) THEN "buy" ELSE "sell")
    /\ tx.quantity = op.quantityNum /\ tx.price = op.priceNum
    /\ storedTotal(tx) = tx.quantity * tx.price

\* the ledger after one request run alone
LedgerAfter(op) ==
    IF op.out = "ok"
    THEN /\ Len(ledger) = Len(base.ledger) + 1
         /\ SubSeq(ledger, 1, Len(base.ledger)) = base.ledger
         /\ EntryOf(op, ledger[Len(ledger)])
    ELSE ledger = base.ledger

AppendOnly(old, new) ==
    /\ Len(new) \in {Len(old), Len(old) + 1}
    /\ SubSeq(new, 1, Len(old)) = old

\* C25: a buy or sell that answers ok has appended exactly one ledger entry, of
\* its side, quantity and price, whose stored total is quantity x price; one that
\* is rejected has appended none; no step changes or removes an entry
C25_OneEntryPerSuccess ==
    [][ /\ AppendOnly(ledger, ledger')
        /\ (Quiescent /\ Len(batch) = 1)' => LedgerAfter(batch[1])' ]_vars

\* C25's case: a sell of 2 at 3000 answered ok and the ledger's last entry is a
\* sell with total 6000, after the buy's entry
C25_Witness ==
    /\ SoloDone /\ IsSell(batch[1]) /\ batch[1].out = "ok"
    /\ Len(ledger) = 2 /\ ledger[1].type = "buy"
    /\ ledger[2].type = "sell" /\ ledger[2].quantity = 2
    /\ storedTotal(ledger[2]) = 6000

\* a rejected request left the ledger as it was
C25_WitnessRejected ==
    /\ SoloDone /\ batch[1].out = "Insufficient funds" /\ Len(ledger) = 1

\* C26: what a sell credits and the price it records are computed from the price
\* in the request; the price is not obtained from the market-data gateway
C26_SellUsesCallerPrice ==
    (SoloDone /\ IsSell(batch[1]) /\ batch[1].out = "ok")
    => /\ ~Falsy(batch[1].body.price)
       /\ wallet[batch[1].userId]
            = base.wallet[batch[1].userId] + batch[1].quantityNum * batch[1].body.price.v
       /\ ledger[Len(ledger)].price = batch[1].body.price.v

\* C27: no buy or sell is ever waiting on the gateway: for the coin's display
\* data in buyCrypto, for the current price in router.post('/sell')
C27_NoGatewayWait ==
    \A i \in Slots : req[i].pc \notin {"coinInfo", "price"}

\* a field that is a positive numeral and nothing else
PositiveNumeral(field) == field.t = "num" /\ field.v > 0

\* C28: a buy or sell without an asset id, or whose quantity or price is missing,
\* not a number, zero or negative, is answered with a validation error and
\* leaves wallet, positions and ledger as they were
C28_InvalidInputRejected ==
    ( /\ SoloDone
      /\ \/ batch[1].body.coinId = ""
         \/ ~PositiveNumeral(batch[1].body.quantity)
         \/ batch[1].kind # "routeSell" /\ ~PositiveNumeral(batch[1].body.price) )
    => batch[1].out \in ValidationErrors /\ Store = base

\* f = g, for fractions not necessarily in lowest terms
SameAmount(f, g) == f[1] * g[2] = g[1] * f[2]

\* C29: in a page computed with fetched prices every holding has
\* currentValue = quantity x currentPrice (the fetched price of its coin when the
\* payload lists one), totalInvested = quantity x averageBuyPrice,
\* profitLoss = currentValue - totalInvested, and profitLossPercentage =
\* profitLoss / totalInvested x 100 when totalInvested > 0 and 0 otherwise
C29_HoldingValuation ==
    (page.pc = "done" /\ page.handler = "showPortfolio" /\ page.source = "live")
    => /\ Len(page.data.holdings) = Len(page.found)
       /\ \A k \in 1..Len(page.found) :
            LET doc == page.found[k]
                h == page.data.holdings[k]
            IN /\ h.coinId = doc.coinId
               /\ page.marketData[doc.coinId] # 0
                    => SameAmount(h.currentPrice, <<page.marketData[doc.coinId], 1>>)
               /\ SameAmount(h.currentValue,
                             <<doc.quantity * h.currentPrice[1], h.currentPrice[2]>>)
               /\ SameAmount(h.totalInvested,
                             <<doc.quantity * doc.averageBuyPrice[1], doc.averageBuyPrice[2]>>)
               /\ SameAmount(Plus(h.profitLoss, h.totalInvested), h.currentValue)
               /\ h.profitLossPercentage[2] > 0
               /\ IF h.totalInvested[1] > 0
                  THEN h.profitLossPercentage[1] * h.totalInvested[1] * h.profitLoss[2]
                         = 100 * h.profitLoss[1] * h.totalInvested[2]
                               * h.profitLossPercentage[2]
                  ELSE h.profitLossPercentage[1] = 0

\* C29's case: 1 btc bought at 100 and priced at 150 shows a gain of 50%, next
\* to an eth position of quantity 0 that shows 0%
C29_Witness ==
    /\ page.pc = "done" /\ page.handler = "showPortfolio" /\ page.source = "live"
    /\ Len(page.data.holdings) = 2
    /\ page.data.holdings[1].quantity = 1
    /\ page.data.holdings[1].profitLoss = <<50, 1>>
    /\ page.data.holdings[1].profitLossPercentage = <<50, 1>>
    /\ page.data.holdings[2].quantity = 0
    /\ page.data.holdings[2].profitLossPercentage = <<0, 1>>

\* the sum of a field over the holdings of a page, from the first to the last
RECURSIVE SumOver(_, _, _)
SumOver(holdings, field, k) ==
    IF k = 0 THEN <<0, 1>> ELSE Plus(SumOver(holdings, field, k - 1), holdings[k][field])

\* the totals of a page are those of its holdings
TotalsOfHoldings(data) ==
    LET n == Len(data.holdings)
        value == SumOver(data.holdings, "currentValue", n)
        invested == SumOver(data.holdings, "totalInvested", n)
    IN /\ SameAmount(data.portfolioValue, value)
       /\ SameAmount(data.totalInvested, invested)
       /\ SameAmount(data.totalProfitLoss, Minus(value, invested))
       /\ data.totalProfitLossPercentage[2] > 0
       /\ IF invested[1] > 0
          THEN data.totalProfitLossPercentage[1] * invested[1] * data.totalProfitLoss[2]
                 = 100 * data.totalProfitLoss[1] * invested[2]
                       * data.totalProfitLossPercentage[2]
          ELSE data.totalProfitLossPercentage[1] = 0

\* C30: in every rendered page, computed with fetched prices or by the fallback
\* or taken from portfolioCache, portfolioValue is the sum of the holdings'
\* currentValue, the total invested the sum of their totalInvested,
\* totalProfitLoss the difference and totalProfitLossPercentage derived from
\* these totals
C30_AggregateTotals ==
    (page.pc = "done" /\ page.handler = "showPortfolio" /\ page.source # "error")
    => TotalsOfHoldings(page.data)

\* the totals of the pages computed with fetched prices
LiveTotals ==
    (page.pc = "done" /\ page.handler = "showPortfolio" /\ page.source = "live")
    => TotalsOfHoldings(page.data)

\* holdings worth 150 and 50, each bought for 100: total profit/loss 0 and 0%
LiveExample ==
    /\ page.pc = "done" /\ page.handler = "showPortfolio" /\ page.source = "live"
    /\ Len(page.data.holdings) = 2
    /\ page.data.holdings[1].currentValue = <<150, 1>>
    /\ page.data.holdings[2].currentValue = <<50, 1>>
    /\ page.data.totalInvested = <<200, 1>>
    /\ page.data.totalProfitLoss = <<0, 1>>
    /\ page.data.totalProfitLossPercentage = <<0, 1>>

\* C31: a valuation whose gateway call failed renders the portfolio page, not an
\* error, with every position of the user valued at its own averageBuyPrice and
\* profit/loss 0
C31_FallbackOnGatewayFailure ==
    (page.pc = "done" /\ page.failed = "gateway")
    => /\ page.source # "error"
       /\ Len(page.data.holdings) = Len(page.found)
       /\ \A k \in 1..Len(page.found) :
            LET doc == page.found[k]
                h == page.data.holdings[k]
            IN /\ h.coinId = doc.coinId /\ h.quantity = doc.quantity
               /\ SameAmount(h.currentPrice, doc.averageBuyPrice)
               /\ SameAmount(h.currentValue,
                             <<doc.quantity * doc.averageBuyPrice[1], doc.averageBuyPrice[2]>>)
               /\ h.profitLoss[1] = 0

\* the same for CryptoController.showPortfolio alone
ControllerFallback ==
    page.handler = "showPortfolio" => C31_FallbackOnGatewayFailure

\* a page of the catch block of showPortfolio with two holdings
ControllerFallbackReached ==
    /\ page.pc = "done" /\ page.handler = "showPortfolio" /\ page.failed = "gateway"
    /\ Len(page.data.holdings) = 2

\* C32: a page computed by the cost-basis fallback tells its reader that it is
\* degraded, and a page computed with fetched prices does not
C32_DegradedFlag ==
    (page.pc = "done" /\ page.handler = "showPortfolio")
    => /\ page.source = "fallback" => degraded(page.data)
       /\ page.source = "live" => ~degraded(page.data)

\* a fallback page and a page computed with fetched prices that are the same
\* in every value
SamePageEitherWay ==
    /\ page.pc = "done" /\ page.handler = "showPortfolio" /\ page.source = "fallback"
    /\ \E marketData \in MarketData : livePage(page.found, marketData) = page.data

\* C33: a call of CryptoController that finds an entry stored longer ago than the
\* duration stated at its call site (5 minutes for markets and chart data, 2
\* minutes for portfolio prices, 10 minutes for portfolio coin data) does not
\* return it: it pushes a new upstream fetch
C33_StaleAfterStatedDuration ==
    \A c \in CallIds :
        ( /\ call[c].state # "new"
          /\ call[c].seen # NoEntry
          /\ call[c].at - call[c].seen.timestamp > Stated(call[c].cacheKey) )
        => call[c].task # 0

\* a task that has failed: by a hard error, or by a 429 on each of its attempts
Failed(t) == task[t].state = "rejected"

\* C34: every pushed task eventually settles, and when a task has failed while
\* another is waiting in the queue, that one is eventually handed to the worker
C34_EveryTaskSettles ==
    /\ \A t \in TaskIds : (task[t].state = "queued") ~> Settled(t)
    /\ \A t \in TaskIds :
         (Failed(t) /\ tasks # <<>>) ~> (tasks = <<>> \/ Head(tasks) # t + 1)

\* C34's case: the first task failed on its third 429, the second by a hard
\* error, and the third, pushed before either failed, has resolved
C34_Witness ==
    /\ MaxTasks >= 3
    /\ task[1].state = "rejected" /\ task[1].n429 = maxAttempts
    /\ task[2].state = "rejected" /\ task[2].n429 = 0
    /\ task[3].state = "resolved"

\* C35: every backoff sleep of a task ends in another upstream attempt of that
\* task: no task goes from its sleep to having failed
C35_SleepOnlyBetweenAttempts ==
    [][\A t \in TaskIds :
          (task[t].state = "sleeping" /\ task'[t].state # "sleeping")
          => (task'[t].state = "calling" /\ task'[t].calls = task[t].calls + 1)]_vars

\* a task asleep after its last attempt
SleepsAfterLastAttempt ==
    \E t \in TaskIds :
        task[t].state = "sleeping" /\ task[t].attempt = maxAttempts /\ task[t].delay > 0

\* the tasks waiting in the queue
Queued == {tasks[k] : k \in 1..Len(tasks)}

\* C36: when the handler's 10 s timer has won the race, the task of the call
\* stays in the queue at its place, is run by the worker like any other, and
\* when it resolves its payload is stored under the call's cache key
C36_AbandonedFetchStillStores ==
    [][\A c \in CallIds :
          LET t == call[c].task
          IN /\ (~call[c].abandoned /\ call'[c].abandoned)
                  => (tasks' = tasks /\ task' = task)
             /\ call'[c].abandoned
                  => /\ task'[t].state = "queued" <=> t \in Queued'
                     /\ (task[t].state # "resolved" /\ task'[t].state = "resolved")
                          => /\ task[t].state = "calling"
                             /\ cache'[call[c].cacheKey]
                                  = [data |-> task'[t].result, timestamp |-> now']
                             /\ call'[c].state = "returned"]_vars

\* C36's case: the second call was abandoned while its task waited behind the
\* first call's; the first call's task failed, the second's resolved and its
\* payload is the entry of the second call's key
C36_Witness ==
    /\ call[1].state = "threw"
    /\ call[2].abandoned /\ call[2].state = "returned"
    /\ call[1].cacheKey # call[2].cacheKey
    /\ 1 \in call[2].overlaps
    /\ cache[call[2].cacheKey].data = task[call[2].task].result
    /\ storedBy[call[2].cacheKey] = 2

\* C37: with no store failure, a showPortfolio that arrives when every buy and
\* sell of the user has completed renders the wallet and the holdings as they
\* are in the store at that moment, whatever showPortfolio was in progress
\* during those buys and sells
C37_PageIncludesCompletedTrades ==
    ( /\ page.pc = "done" /\ page.handler = "showPortfolio"
      /\ page.source \in {"live", "fallback", "cache"}
      /\ page.began.quiet /\ nfaults = 0 )
    => /\ page.user = page.began.wallet
       /\ Len(page.data.holdings) = Len(page.began.found)
       /\ \A k \in 1..Len(page.began.found) :
            /\ page.data.holdings[k].coinId = page.began.found[k].coinId
            /\ page.data.holdings[k].quantity = page.began.found[k].quantity

\* with no showPortfolio in progress during a buy or sell, the page is current:
\* the pages that are not served from portfolioCache
FreshPagesCurrent ==
    page.source # "cache" => C37_PageIncludesCompletedTrades

\* the sum of the totals of the user's entries of one type
RECURSIVE TotalsIn(_, _, _)
TotalsIn(lg, userId, type) ==
    IF lg = <<>> THEN 0
    ELSE (IF Head(lg).userId = userId /\ Head(lg).type = type
          THEN storedTotal(Head(lg)) ELSE 0) + TotalsIn(Tail(lg), userId, type)

TotalsOf(userId, type) == TotalsIn(ledger, userId, type)

\* the sum of the quantities of the user's entries of one type for one asset
RECURSIVE QuantityIn(_, _, _, _)
QuantityIn(lg, userId, coinId, type) ==
    IF lg = <<>> THEN 0
    ELSE (IF Head(lg).userId = userId /\ Head(lg).coinId = coinId /\ Head(lg).type = type
          THEN Head(lg).quantity ELSE 0) + QuantityIn(Tail(lg), userId, coinId, type)

QuantityOf(userId, coinId, type) == QuantityIn(ledger, userId, coinId, type)

\* C38: when the buys and sells have run one at a time and no store call has
\* failed, each wallet is 10000 less the totals of the user's buy entries plus
\* the totals of the user's sell entries, and of each asset the user holds the
\* quantity bought less the quantity sold, no position counting as 0
C38_LedgerAccountsForStore ==
    (Quiescent /\ nfaults = 0)
    => \A u \in Users :
         /\ wallet[u] = 10000 - TotalsOf(u, "buy") + TotalsOf(u, "sell")
         /\ \A c \in Coins :
              findOne(portfolio, u, c).quantity
                = QuantityOf(u, c, "buy") - QuantityOf(u, c, "sell")

\* C38's case: u1 bought btc twice and the position holds the sum
C38_Witness ==
    /\ Quiescent /\ nfaults = 0
    /\ Len(ledger) = 2 /\ ledger[1].type = "buy" /\ ledger[2].type = "buy"
    /\ ledger[1].coinId = ledger[2].coinId
    /\ findOne(portfolio, "u1", ledger[1].coinId).quantity
         = ledger[1].quantity + ledger[2].quantity
    /\ wallet["u1"] = 10000 - storedTotal(ledger[1]) - storedTotal(ledger[2])

\* a sell entered in the ledger and taken off the position
SoldAndAccounted ==
    /\ Quiescent /\ nfaults = 0
    /\ Len(ledger) = 2 /\ ledger[2].type = "sell"
    /\ findOne(portfolio, "u1", ledger[1].coinId).quantity = ledger[1].quantity - ledger[2].quantity
    /\ ledger[2].quantity < ledger[1].quantity

====
